---- MODULE Spec2Model ----
(***************************************************************************)
(* sparkstart: the project-creation and project-deletion orchestration of  *)
(* src/sparkstart/core.py, with the credential store                       *)
(* (src/sparkstart/utils/common.py), the hosting-API client                *)
(* (src/sparkstart/utils/github.py) and the scaffolders it dispatches to.  *)
(*                                                                         *)
(* One project path is modelled.  Its directory is a function from         *)
(* relative file names to content tags; the ignore file, the credential    *)
(* file and the repository metadata (.git) carry their own content.        *)
(* Strings that are built from pieces (URLs, command lines, error texts)   *)
(* are sequences of segments, so that "contains the token" is decidable.   *)
(*                                                                         *)
(* Spec is the orchestrator called as a library.  SpecCli is the command   *)
(* line (src/sparkstart/cli.py) on top of it.  SpecValidation,             *)
(* SpecCredentials and SpecGithub apply the validators, the credential     *)
(* store and the API client on their own to the inputs a caller may pass.  *)
(* SpecScaffolders does the same for the scaffolders                       *)
(* (src/sparkstart/scaffolders), and SpecSpinner is the Spinner of         *)
(* src/sparkstart/utils/progress.py with its caller and its threads.       *)
(***************************************************************************)
EXTENDS Integers, Sequences, FiniteSets, TLC

\* ---------------------------------------------------------------- bounds

\* Number of create_project / delete_project invocations in one behaviour.
MaxCalls == 2

\* ------------------------------------------------------------- constants

SupportedLangs == {"python", "rust", "javascript", "cpp"}

\* The languages a caller may pass: the four supported ones and one other.
Langs == SupportedLangs \cup {"go"}

\* template argument: None or a template name.
Templates == {"None", "pygame"}

\* Access tokens a user may export or paste.
Tokens == {"tokA", "tokB"}

\* HTTP statuses the hosting API may answer with.
Statuses == {200, 404}

CredFile == ".sparkstart.env"

IgnoreFile == ".gitignore"

NoFiles == [n \in {} |-> "x"]

\* ------------------------------------------------------------ state

VARIABLES
    dirExists,   \* the project directory exists
    files,       \* file name -> content tag, the directory's entries
    gitignore,   \* lines of .gitignore (<<>> when the file is absent)
    credToken,   \* GITHUB_TOKEN value held by .sparkstart.env ("" when absent)
    git,         \* .git: [repo, staged, committed, origin]
    remoteRepo,  \* the repository exists on the hosting service
    remoteFiles, \* files pushed to the hosting service
    envToken,    \* $GITHUB_TOKEN of the process ("" when unset)
    interactive, \* a terminal is attached: typer.prompt can read an answer
    op,          \* "none" | "create" | "delete": the running orchestrator call
                 \* (or the name of the function applied on its own)
    pc,          \* position inside the running call
    args,        \* arguments of the running call
    token,       \* local variable token of the running call
    result,      \* "none" | "running" | "ok" | the failure raised
    errText,     \* text of the raised failure, as segments
    trace,       \* external effects of the running call, in order
    calls,       \* invocations made so far
    made,        \* history: the arguments of the create_project call that
                 \* completed the directory now present (ok = FALSE: none)
    cli,         \* the running command of the command line: [cmd, name, tools,
                 \* force, exit]; exit is the process's exit status, -1 while
                 \* the command runs
    manifest,    \* content of the manifests the tools scaffolder amends:
                 \* [requirements, pyproject, package]
    spinner      \* a Spinner object, its threads and its caller: [running,
                 \* thread, threads, caller]

vars == <<dirExists, files, gitignore, credToken, git, remoteRepo, remoteFiles,
          envToken, interactive, op, pc, args, token, result, errText, trace,
          calls, made, cli, manifest, spinner>>

\* The objects the orchestrator never touches.
unitVars == <<manifest, spinner>>

fsVars == <<dirExists, files, gitignore, credToken, git>>

remoteVars == <<remoteRepo, remoteFiles>>

hostVars == <<envToken, interactive>>

NoGit == [repo |-> FALSE, staged |-> {}, committed |-> {}, origin |-> <<>>]

NoMade == [ok |-> FALSE, github |-> FALSE, lang |-> "python",
           devcontainer |-> FALSE, template |-> "None", tutorial |-> FALSE]

NoArgs == [github |-> FALSE, lang |-> "python", devcontainer |-> FALSE,
           template |-> "None", tutorial |-> FALSE]

\* No command of the command line is running: the orchestrator is called as
\* a library.
NoCli == [cmd |-> "none", name |-> <<>>, tools |-> FALSE, force |-> FALSE,
          exit |-> -1]

\* package.json as json.loads sees it: whether it parses, whether it has a
\* "scripts" object, the scripts as name-command pairs, and its layout.
NoPackage == [parses |-> FALSE, hasScripts |-> FALSE, scripts |-> {},
              layout |-> "none"]

\* No manifest exists: empty contents.
NoManifest == [requirements |-> <<>>, pyproject |-> <<>>, package |-> NoPackage]

\* Spinner.__init__: not running, no thread.
NoSpinner == [running |-> FALSE, thread |-> 0, threads |-> <<>>,
              caller |-> "idle"]

\* ------------------------------------------------------------ helpers

\* Path.write_text / touch / mkdir of one entry.
Write(f, name, tag) ==
    [n \in (DOMAIN f) \cup {name} |-> IF n = name THEN tag ELSE f[n]]

\* Several entries written with the same tag source.
WriteAll(f, g) ==
    [n \in (DOMAIN f) \cup (DOMAIN g) |-> IF n \in DOMAIN g THEN g[n] ELSE f[n]]

Contains(seq, x) == \E i \in DOMAIN seq : seq[i] = x

Log(ev) == trace' = Append(trace, ev)

\* raise: the call ends with a failure; nothing else is touched by the raise.
Raise(kind, text) ==
    /\ result' = kind
    /\ errText' = text
    /\ pc' = "failed"

Goto(label) ==
    /\ pc' = label
    /\ UNCHANGED <<result, errText>>

Running(o, label) == op = o /\ pc = label /\ result = "running"

\* ------------------------------------------------------------ Init

Init ==
    /\ dirExists = FALSE
    /\ files = NoFiles
    /\ gitignore = <<>>
    /\ credToken = ""
    /\ git = NoGit
    /\ remoteRepo = FALSE
    /\ remoteFiles = {}
    /\ envToken = ""
    /\ interactive = TRUE
    /\ op = "none"
    /\ pc = "idle"
    /\ args = NoArgs
    /\ token = ""
    /\ result = "none"
    /\ errText = <<>>
    /\ trace = <<>>
    /\ calls = 0
    /\ made = NoMade
    /\ cli = NoCli
    /\ manifest = NoManifest
    /\ spinner = NoSpinner

\* ------------------------------------------------- the process environment

Idle == pc = "idle"

Ended == pc \in {"done", "failed"}

\* The user exports or unsets $GITHUB_TOKEN between two invocations.
SetEnvToken ==
    /\ Idle
    /\ \E t \in Tokens \cup {""} : t # envToken /\ envToken' = t
    /\ UNCHANGED <<fsVars, remoteVars, interactive, op, pc, args, token, result,
                   errText, trace, calls, made, cli>>
    /\ UNCHANGED unitVars

\* The next invocation runs with or without a terminal attached.
SetInteractive ==
    /\ Idle
    /\ interactive' = ~interactive
    /\ UNCHANGED <<fsVars, remoteVars, envToken, op, pc, args, token, result,
                   errText, trace, calls, made, cli>>
    /\ UNCHANGED unitVars

\* ------------------------------------------------------ create_project

CallCreate ==
    /\ Idle
    /\ calls < MaxCalls
    /\ \E gh \in BOOLEAN, l \in Langs, dc \in BOOLEAN, tp \in Templates,
          tu \in BOOLEAN :
          args' = [github |-> gh, lang |-> l, devcontainer |-> dc,
                   template |-> tp, tutorial |-> tu]
    /\ op' = "create"
    /\ pc' = "mkdir"
    /\ result' = "running"
    /\ errText' = <<>>
    /\ token' = ""
    /\ trace' = <<>>
    /\ calls' = calls + 1
    /\ UNCHANGED <<fsVars, remoteVars, hostVars, made, cli>>
    /\ UNCHANGED unitVars

\* Mkdir with exist_ok=True: an existing directory is accepted.
Mkdir_ExistOk ==
    /\ Running("create", "mkdir")
    /\ dirExists' = TRUE
    /\ Goto("scaffold")
    /\ UNCHANGED <<files, gitignore, credToken, git, remoteVars, hostVars, op,
                   args, token, trace, calls, made, cli>>
    /\ UNCHANGED unitVars

\* path.mkdir(parents=False, exist_ok=False)
Mkdir ==
    /\ Running("create", "mkdir")
    /\ IF dirExists
         THEN /\ Raise("AlreadyExists", <<"FileExistsError">>)
              /\ UNCHANGED dirExists
         ELSE /\ dirExists' = TRUE
              /\ Goto("scaffold")
    /\ UNCHANGED <<files, gitignore, credToken, git, remoteVars, hostVars, op,
                   args, token, trace, calls, made, cli>>
    /\ UNCHANGED unitVars

\* ------------------------------------------------------------ templates

\* templates/cpp.py GITIGNORE_CPP: build output, IDE, and the credential file.
GITIGNORE_CPP == <<"build/", ".DS_Store", ".sparkstart.env">>

\* templates/python.py GITIGNORE_PYTHON (virtual environment, caches).
GITIGNORE_PYTHON == <<"__pycache__/", ".venv/">>

GITIGNORE_RUST == <<"/target/">>

GITIGNORE_JAVASCRIPT == <<"node_modules/">>

\* templates/tutorial/*.py GITIGNORE_*_TUTORIAL: none names the credential file.
GitignoreTutorial(lang) ==
    CASE lang = "python" -> <<"__pycache__/", ".venv/", "venv/">>
      [] lang = "rust" -> <<"/target/", "debug/">>
      [] lang = "javascript" -> <<"node_modules/", "dist/">>
      [] OTHER -> <<"build/", "CMakeCache.txt">>

\* ------------------------------------------------------------ scaffolders

\* scaffold_python(path, template) up to, not including, venv.create.
PythonFiles(template) ==
    [n \in {"src/__init__.py", "src/main.py", ".gitignore", "tests/__init__.py",
            "tests/test_main.py", "pyproject.toml"} |->
        CASE n = "src/main.py" ->
               IF template = "pygame" THEN "snake_game" ELSE "hello_world"
          [] n = "tests/test_main.py" ->
               IF template = "pygame" THEN "test_import_pygame" ELSE "test_hello"
          [] n = "pyproject.toml" ->
               IF template = "pygame" THEN "deps_pygame" ELSE "deps_standard"
          [] n = ".gitignore" -> "GITIGNORE_PYTHON"
          [] OTHER -> "empty"]

\* scaffold_rust(path): source, manifest and ignore file.
RustFiles ==
    [n \in {"src/main.rs", "Cargo.toml", ".gitignore"} |->
        IF n = ".gitignore" THEN "GITIGNORE_RUST" ELSE "standard"]

\* scaffold_javascript(path): source, manifest and ignore file.
JavascriptFiles ==
    [n \in {"src/main.js", "package.json", ".gitignore"} |->
        IF n = ".gitignore" THEN "GITIGNORE_JAVASCRIPT" ELSE "standard"]

\* scaffold_cpp(path): source, build description and ignore file.
CppFiles ==
    [n \in {"src/main.cpp", "CMakeLists.txt", ".gitignore"} |->
        IF n = ".gitignore" THEN "GITIGNORE_CPP" ELSE "standard"]

\* scaffold_tutorial_<lang>(path): the number-guessing game, its tests,
\* README, manifest and ignore file.
TutorialFiles(lang) ==
    LET names ==
          CASE lang = "python" ->
                 {"src/main.py", "tests/__init__.py", "tests/test_main.py",
                  "README.md", "pyproject.toml", ".gitignore"}
            [] lang = "rust" ->
                 {"src/main.rs", "tests/integration_test.rs", "README.md",
                  "Cargo.toml", ".gitignore"}
            [] lang = "javascript" ->
                 {"src/main.js", "tests/main.test.js", "README.md",
                  "package.json", ".gitignore"}
            [] OTHER ->
                 {"build", "src/main.cpp", "tests/test_main.cpp", "README.md",
                  "CMakeLists.txt", "conanfile.txt", ".gitignore"}
    IN  [n \in names |->
            CASE n = "tests/__init__.py" -> "empty"
              [] n = "build" -> "dir"
              [] OTHER -> "tutorial"]

\* The README written by create_project in the standard branch.
ReadmeTag(lang) == IF lang = "cpp" THEN "README_CPP" ELSE "README_TEXT"

\* The ignore file written by the standard scaffolder of a language.
GitignoreStandard(lang) ==
    CASE lang = "python" -> GITIGNORE_PYTHON
      [] lang = "rust" -> GITIGNORE_RUST
      [] lang = "javascript" -> GITIGNORE_JAVASCRIPT
      [] OTHER -> GITIGNORE_CPP

StandardFiles(lang, template) ==
    CASE lang = "python" -> PythonFiles(template)
      [] lang = "rust" -> RustFiles
      [] lang = "javascript" -> JavascriptFiles
      [] OTHER -> CppFiles

UnknownLanguage(lang) == <<"Unknown language: ", lang>>

\* SourceScaffold that takes the tutorial branch only when no template is
\* given.
SourceScaffold_TemplateFirst ==
    /\ Running("create", "scaffold")
    /\ IF args.tutorial /\ args.template = "None"
         THEN IF args.lang \in SupportedLangs
                THEN /\ files' = WriteAll(files, TutorialFiles(args.lang))
                     /\ gitignore' = GitignoreTutorial(args.lang)
                     /\ Log(<<"scaffold_tutorial", args.lang>>)
                     /\ Goto("aux")
                ELSE /\ Raise("UnsupportedLanguage", UnknownLanguage(args.lang))
                     /\ UNCHANGED <<files, gitignore, trace>>
         ELSE LET readme == Write(files, "README.md", ReadmeTag(args.lang))
              IN  IF args.lang \in SupportedLangs
                    THEN /\ gitignore' = GitignoreStandard(args.lang)
                         /\ Log(<<"scaffold_standard", args.lang>>)
                         /\ IF args.lang = "python"
                              THEN \E venvOk \in BOOLEAN :
                                     IF venvOk
                                       THEN /\ files' = Write(WriteAll(readme,
                                                   PythonFiles(args.template)),
                                                   ".venv", "dir")
                                            /\ Goto("aux")
                                       ELSE /\ files' = WriteAll(readme,
                                                   PythonFiles(args.template))
                                            /\ Raise("ProcessFailure",
                                                     <<"venv">>)
                              ELSE /\ files' = WriteAll(readme,
                                         StandardFiles(args.lang, args.template))
                                   /\ Goto("aux")
                    ELSE /\ files' = readme
                         /\ Raise("UnsupportedLanguage",
                                  UnknownLanguage(args.lang))
                         /\ UNCHANGED <<gitignore, trace>>
    /\ UNCHANGED <<dirExists, credToken, git, remoteVars, hostVars, op, args,
                   token, calls, made, cli>>
    /\ UNCHANGED unitVars


\* SourceScaffold whose dispatch chains have no final else: an unknown
\* language is passed over.
SourceScaffold_NoElse ==
    /\ Running("create", "scaffold")
    /\ IF args.tutorial
         THEN IF args.lang \in SupportedLangs
                THEN /\ files' = WriteAll(files, TutorialFiles(args.lang))
                     /\ gitignore' = GitignoreTutorial(args.lang)
                     /\ Log(<<"scaffold_tutorial", args.lang>>)
                     /\ Goto("aux")
                ELSE /\ Goto("aux")
                     /\ UNCHANGED <<files, gitignore, trace>>
         ELSE LET readme == Write(files, "README.md", ReadmeTag(args.lang))
              IN  IF args.lang \in SupportedLangs
                    THEN /\ gitignore' = GitignoreStandard(args.lang)
                         /\ Log(<<"scaffold_standard", args.lang>>)
                         /\ IF args.lang = "python"
                              THEN \E venvOk \in BOOLEAN :
                                     IF venvOk
                                       THEN /\ files' = Write(WriteAll(readme,
                                                   PythonFiles(args.template)),
                                                   ".venv", "dir")
                                            /\ Goto("aux")
                                       ELSE /\ files' = WriteAll(readme,
                                                   PythonFiles(args.template))
                                            /\ Raise("ProcessFailure",
                                                     <<"venv">>)
                              ELSE /\ files' = WriteAll(readme,
                                         StandardFiles(args.lang, args.template))
                                   /\ Goto("aux")
                    ELSE /\ files' = readme
                         /\ Goto("aux")
                         /\ UNCHANGED <<gitignore, trace>>
    /\ UNCHANGED <<dirExists, credToken, git, remoteVars, hostVars, op, args,
                   token, calls, made, cli>>
    /\ UNCHANGED unitVars


\* Lines 60-96 of create_project: the tutorial branch or README + standard
\* scaffolder; an unknown language raises ValueError in either branch.
\* venv.create (scaffold_python's last statement) runs ensurepip in a
\* subprocess and may fail after every file has been written.
SourceScaffold ==
    /\ Running("create", "scaffold")
    /\ IF args.tutorial
         THEN IF args.lang \in SupportedLangs
                THEN /\ files' = WriteAll(files, TutorialFiles(args.lang))
                     /\ gitignore' = GitignoreTutorial(args.lang)
                     /\ Log(<<"scaffold_tutorial", args.lang>>)
                     /\ Goto("aux")
                ELSE /\ Raise("UnsupportedLanguage", UnknownLanguage(args.lang))
                     /\ UNCHANGED <<files, gitignore, trace>>
         ELSE LET readme == Write(files, "README.md", ReadmeTag(args.lang))
              IN  IF args.lang \in SupportedLangs
                    THEN /\ gitignore' = GitignoreStandard(args.lang)
                         /\ Log(<<"scaffold_standard", args.lang>>)
                         /\ IF args.lang = "python"
                              THEN \E venvOk \in BOOLEAN :
                                     IF venvOk
                                       THEN /\ files' = Write(WriteAll(readme,
                                                   PythonFiles(args.template)),
                                                   ".venv", "dir")
                                            /\ Goto("aux")
                                       ELSE /\ files' = WriteAll(readme,
                                                   PythonFiles(args.template))
                                            /\ Raise("ProcessFailure",
                                                     <<"venv">>)
                              ELSE /\ files' = WriteAll(readme,
                                         StandardFiles(args.lang, args.template))
                                   /\ Goto("aux")
                    ELSE /\ files' = readme
                         /\ Raise("UnsupportedLanguage",
                                  UnknownLanguage(args.lang))
                         /\ UNCHANGED <<gitignore, trace>>
    /\ UNCHANGED <<dirExists, credToken, git, remoteVars, hostVars, op, args,
                   token, calls, made, cli>>
    /\ UNCHANGED unitVars

\* DockerCheck that treats a missing docker binary as a failure.
DockerCheck_Required ==
    /\ Running("create", "aux")
    /\ IF args.devcontainer
         THEN \E found \in BOOLEAN :
                IF found THEN Goto("devcontainer")
                         ELSE Raise("MissingTool", <<"docker not found">>)
         ELSE Goto("guide")
    /\ UNCHANGED <<fsVars, remoteVars, hostVars, op, args, token, trace, calls,
                   made, cli>>
    /\ UNCHANGED unitVars

\* Lines 98-105: the devcontainer gate and the advisory docker check.
DockerCheck ==
    /\ Running("create", "aux")
    /\ IF args.devcontainer
         THEN /\ \E found \in BOOLEAN :
                   IF found THEN UNCHANGED trace
                            ELSE Log(<<"warn", "docker">>)
              /\ Goto("devcontainer")
         ELSE /\ Goto("guide")
              /\ UNCHANGED trace
    /\ UNCHANGED <<fsVars, remoteVars, hostVars, op, args, token, calls, made, cli>>
    /\ UNCHANGED unitVars

UnsupportedFor(kind, lang) == <<"Unsupported language for ", kind, ": ", lang>>

\* scaffold_devcontainer(path, lang): mkdir, then the language check.
ScaffoldDevcontainer ==
    /\ Running("create", "devcontainer")
    /\ Log(<<"scaffold_devcontainer", args.lang>>)
    /\ IF args.lang \in SupportedLangs
         THEN /\ files' = Write(Write(files, ".devcontainer", "dir"),
                                ".devcontainer/devcontainer.json", args.lang)
              /\ Goto("direnv")
         ELSE /\ files' = Write(files, ".devcontainer", "dir")
              /\ Raise("UnsupportedLanguage",
                       UnsupportedFor("devcontainer", args.lang))
    /\ UNCHANGED <<dirExists, gitignore, credToken, git, remoteVars, hostVars,
                   op, args, token, calls, made, cli>>
    /\ UNCHANGED unitVars

\* scaffold_direnv(path, lang)
ScaffoldDirenv ==
    /\ Running("create", "direnv")
    /\ Log(<<"scaffold_direnv", args.lang>>)
    /\ IF args.lang \in SupportedLangs
         THEN /\ files' = Write(files, ".envrc", args.lang)
              /\ Goto("compose")
         ELSE /\ Raise("UnsupportedLanguage", UnsupportedFor("direnv", args.lang))
              /\ UNCHANGED files
    /\ UNCHANGED <<dirExists, gitignore, credToken, git, remoteVars, hostVars,
                   op, args, token, calls, made, cli>>
    /\ UNCHANGED unitVars

\* scaffold_compose whose template table lacks the cpp entry.
ScaffoldCompose_NoCpp ==
    /\ Running("create", "compose")
    /\ Log(<<"scaffold_compose", args.lang>>)
    /\ IF args.lang \in SupportedLangs \ {"cpp"}
         THEN /\ files' = Write(files, "compose.yaml", args.lang)
              /\ Goto("guide")
         ELSE /\ Raise("UnsupportedLanguage", UnsupportedFor("compose", args.lang))
              /\ UNCHANGED files
    /\ UNCHANGED <<dirExists, gitignore, credToken, git, remoteVars, hostVars,
                   op, args, token, calls, made, cli>>
    /\ UNCHANGED unitVars

\* scaffold_compose(path, lang)
ScaffoldCompose ==
    /\ Running("create", "compose")
    /\ Log(<<"scaffold_compose", args.lang>>)
    /\ IF args.lang \in SupportedLangs
         THEN /\ files' = Write(files, "compose.yaml", args.lang)
              /\ Goto("guide")
         ELSE /\ Raise("UnsupportedLanguage", UnsupportedFor("compose", args.lang))
              /\ UNCHANGED files
    /\ UNCHANGED <<dirExists, gitignore, credToken, git, remoteVars, hostVars,
                   op, args, token, calls, made, cli>>
    /\ UNCHANGED unitVars

\* scaffold_getting_started(path, name, lang, has_devcontainer): the guide
\* text depends on the language and on the devcontainer flag.
ScaffoldGettingStarted ==
    /\ Running("create", "guide")
    /\ Log(<<"scaffold_getting_started", args.lang>>)
    /\ files' = Write(files, "GETTING_STARTED.md",
                      IF args.devcontainer THEN "guide_devcontainer" ELSE "guide")
    /\ Goto("gitcheck")
    /\ UNCHANGED <<dirExists, gitignore, credToken, git, remoteVars, hostVars,
                   op, args, token, calls, made, cli>>
    /\ UNCHANGED unitVars

\* GitCheck placed after the token has been read from file and environment.
GitCheck_AfterToken ==
    /\ Running("create", "gitcheck")
    /\ trace' = IF args.github
                  THEN trace \o <<(<<"get_project_token", "">>),
                                  (<<"getenv", envToken>>)>>
                  ELSE trace
    /\ \E found \in BOOLEAN :
         IF found
           THEN Goto(IF args.github THEN "token" ELSE "git_init")
           ELSE Raise("MissingTool", <<"git executable not found in PATH">>)
    /\ UNCHANGED <<fsVars, remoteVars, hostVars, op, args, token, calls, made, cli>>
    /\ UNCHANGED unitVars

\* GitCheck that removes the project directory when git is missing.
GitCheck_RollsBack ==
    /\ Running("create", "gitcheck")
    /\ \E found \in BOOLEAN :
         IF found
           THEN /\ Goto(IF args.github THEN "token" ELSE "git_init")
                /\ UNCHANGED fsVars
           ELSE /\ Raise("MissingTool", <<"git executable not found in PATH">>)
                /\ dirExists' = FALSE
                /\ files' = NoFiles
                /\ gitignore' = <<>>
                /\ UNCHANGED <<credToken, git>>
    /\ UNCHANGED <<remoteVars, hostVars, op, args, token, trace, calls, made, cli>>
    /\ UNCHANGED unitVars

\* Lines 113-119: shutil.which("git"), then the github gate.
GitCheck ==
    /\ Running("create", "gitcheck")
    /\ \E found \in BOOLEAN :
         IF found
           THEN Goto(IF args.github THEN "token" ELSE "git_init")
           ELSE Raise("MissingTool", <<"git executable not found in PATH">>)
    /\ UNCHANGED <<fsVars, remoteVars, hostVars, op, args, token, trace, calls, made, cli>>
    /\ UNCHANGED unitVars

\* ------------------------------------------------------ credential store

\* get_project_token(project_root): the GITHUB_TOKEN entry of the credential
\* file, "" when the file or the entry is missing.
get_project_token ==
    IF CredFile \in DOMAIN files THEN credToken ELSE ""

\* The ignore lines when the credential file name is appended without
\* looking for it first.
IgnoreLinesAfterSave_Always(lines) == Append(lines, CredFile)

\* The ignore lines when save_project_token leaves the ignore file alone.
IgnoreLinesAfterSave_Never(lines) == lines

\* The lines save_project_token leaves in the ignore file.
IgnoreLinesAfterSave(lines) ==
    IF Contains(lines, CredFile) THEN lines ELSE Append(lines, CredFile)

\* save_project_token(project_root, token): overwrite the credential file,
\* append the credential file name to the ignore file when it is not a line
\* of it (the ignore file is written only in that case).
save_project_token(tok) ==
    /\ credToken' = tok
    /\ gitignore' = IgnoreLinesAfterSave(gitignore)
    /\ files' = IF Contains(gitignore, CredFile)
                  THEN Write(files, CredFile, "GITHUB_TOKEN")
                  ELSE Write(Write(files, CredFile, "GITHUB_TOKEN"),
                             IgnoreFile, "lines")

\* ResolveToken with the sources swapped: environment first, file second.
ResolveToken_EnvFirst ==
    /\ Running("create", "token")
    /\ LET fromFile == get_project_token
           tok == IF envToken # "" THEN envToken ELSE fromFile
       IN  /\ token' = tok
           /\ trace' = IF envToken # ""
                         THEN Append(trace, <<"getenv", envToken>>)
                         ELSE trace \o <<(<<"getenv", "">>),
                                         (<<"get_project_token", fromFile>>)>>
           /\ Goto(IF tok = "" THEN "prompt" ELSE "git_init")
    /\ UNCHANGED <<fsVars, remoteVars, hostVars, op, args, calls, made, cli>>
    /\ UNCHANGED unitVars

\* Lines 118-122: token = get_project_token(path) or os.getenv(...).  The
\* environment is read only when the file yields an empty token.
ResolveToken ==
    /\ Running("create", "token")
    /\ LET fromFile == get_project_token
           tok == IF fromFile # "" THEN fromFile ELSE envToken
       IN  /\ token' = tok
           /\ trace' = IF fromFile # ""
                         THEN Append(trace, <<"get_project_token", fromFile>>)
                         ELSE trace \o <<(<<"get_project_token", "">>),
                                         (<<"getenv", envToken>>)>>
           /\ Goto(IF tok = "" THEN "prompt" ELSE "git_init")
    /\ UNCHANGED <<fsVars, remoteVars, hostVars, op, args, calls, made, cli>>
    /\ UNCHANGED unitVars

\* Lines 123-129: open the browser and prompt.  typer.prompt raises Abort
\* when no answer can be read.
Prompt ==
    /\ Running("create", "prompt")
    /\ trace' = trace \o <<(<<"webbrowser.open", "">>), (<<"prompt", "">>)>>
    /\ IF interactive
         THEN /\ \E t \in Tokens : token' = t
              /\ Goto("save_token")
         ELSE /\ Raise("Abort", <<"Aborted">>)
              /\ UNCHANGED token
    /\ UNCHANGED <<fsVars, remoteVars, hostVars, op, args, calls, made, cli>>
    /\ UNCHANGED unitVars

\* Line 130: save_project_token(path, token)
SaveToken ==
    /\ Running("create", "save_token")
    /\ save_project_token(token)
    /\ Log(<<"save_project_token", token>>)
    /\ Goto("git_init")
    /\ UNCHANGED <<dirExists, git, remoteVars, hostVars, op, args, token, calls, made, cli>>
    /\ UNCHANGED unitVars

\* ------------------------------------------------------ version control

\* run_shell's failure text: the command line, then the captured stderr.
ShellError(cmd) == <<"$">> \o cmd \o <<"stderr">>

\* git's ignore rule: a line equal to the entry, or the directory form.
Ignored(name, lines) ==
    \/ Contains(lines, name)
    \/ name = ".venv" /\ Contains(lines, ".venv/")
    \/ name = "build" /\ Contains(lines, "build/")

\* GitInit that does not look at the exit status.
GitInit_IgnoresExit ==
    /\ Running("create", "git_init")
    /\ Log(<<"git", "init">>)
    /\ \E ok \in BOOLEAN : git' = [git EXCEPT !.repo = ok]
    /\ Goto("git_add")
    /\ UNCHANGED <<dirExists, files, gitignore, credToken, remoteVars, hostVars,
                   op, args, token, calls, made, cli>>
    /\ UNCHANGED unitVars

\* run_shell(["git", "init", "-b", "main"])
GitInit ==
    /\ Running("create", "git_init")
    /\ Log(<<"git", "init">>)
    /\ \E ok \in BOOLEAN :
         IF ok
           THEN /\ git' = [git EXCEPT !.repo = TRUE]
                /\ Goto("git_add")
           ELSE /\ Raise("ProcessFailure",
                         ShellError(<<"git", "init", "-b", "main">>))
                /\ UNCHANGED git
    /\ UNCHANGED <<dirExists, files, gitignore, credToken, remoteVars, hostVars,
                   op, args, token, calls, made, cli>>
    /\ UNCHANGED unitVars

\* run_shell(["git", "add", "."])
GitAdd ==
    /\ Running("create", "git_add")
    /\ Log(<<"git", "add">>)
    /\ \E ok \in BOOLEAN :
         IF ok
           THEN /\ git' = [git EXCEPT !.staged =
                              {n \in DOMAIN files : ~Ignored(n, gitignore)}]
                /\ Goto("git_commit")
           ELSE /\ Raise("ProcessFailure", ShellError(<<"git", "add", ".">>))
                /\ UNCHANGED git
    /\ UNCHANGED <<dirExists, files, gitignore, credToken, remoteVars, hostVars,
                   op, args, token, calls, made, cli>>
    /\ UNCHANGED unitVars

\* GitCommit without the github gate: the remote part always follows.
GitCommit_AlwaysRemote ==
    /\ Running("create", "git_commit")
    /\ Log(<<"git", "commit">>)
    /\ \E ok \in BOOLEAN :
         IF ok
           THEN /\ git' = [git EXCEPT !.committed = git.staged]
                /\ Goto("create_repo")
           ELSE /\ Raise("ProcessFailure",
                         ShellError(<<"git", "commit", "-m", "Initial commit">>))
                /\ UNCHANGED git
    /\ UNCHANGED <<dirExists, files, gitignore, credToken, remoteVars, hostVars,
                   op, args, token, calls, made, cli>>
    /\ UNCHANGED unitVars

\* run_shell(["git", "commit", "-m", "Initial commit"]), then the github gate.
GitCommit ==
    /\ Running("create", "git_commit")
    /\ Log(<<"git", "commit">>)
    /\ \E ok \in BOOLEAN :
         IF ok
           THEN /\ git' = [git EXCEPT !.committed = git.staged]
                /\ Goto(IF args.github THEN "create_repo" ELSE "summary")
           ELSE /\ Raise("ProcessFailure",
                         ShellError(<<"git", "commit", "-m", "Initial commit">>))
                /\ UNCHANGED git
    /\ UNCHANGED <<dirExists, files, gitignore, credToken, remoteVars, hostVars,
                   op, args, token, calls, made, cli>>
    /\ UNCHANGED unitVars

\* ------------------------------------------------------ hosting API client

\* The clone URL the hosting service answers with.
CloneUrl == <<"https://", "github.com/", "owner/", "name.git">>

\* Every client function: a status of 300 or more is a failure.
ApiFailed(status) == status >= 300

\* The hosting service has carried the request out: a 2xx answer.
Is2xx(status) == status \in 200..299

\* The event details of answers the service gave on carrying a request out.
DoneDetails == {ToString(st) : st \in {x \in Statuses : Is2xx(x)}}

ApiError(status) == <<"GitHub API error ", ToString(status), "body">>

\* create_github_repo(repo_name, token): the token falls back to the
\* environment; POST /user/repos.  The service creates the repository only
\* when it answers with success, and never twice under one name.
CreateRepo ==
    /\ Running("create", "create_repo")
    /\ LET tok == IF token # "" THEN token ELSE envToken
       IN  IF tok = ""
             THEN /\ Raise("MissingCredential", <<"GitHub token not provided.">>)
                  /\ UNCHANGED <<remoteRepo, trace>>
             ELSE \E st \in Statuses :
                       /\ Is2xx(st) => ~remoteRepo
                       /\ remoteRepo' = (remoteRepo \/ Is2xx(st))
                       /\ Log(<<"POST /user/repos", ToString(st)>>)
                       /\ IF ApiFailed(st)
                            THEN Raise("RemoteAPIError", ApiError(st))
                            ELSE Goto("remote_add")
    /\ UNCHANGED <<fsVars, remoteFiles, hostVars, op, args, token, calls, made, cli>>
    /\ UNCHANGED unitVars

\* str.replace(old, new, 1) on a segmented string.
ReplaceFirst(s, old, new) ==
    LET idx == {i \in DOMAIN s : s[i] = old}
    IN  IF idx = {}
          THEN s
          ELSE LET k == CHOOSE i \in idx : \A j \in idx : i <= j
               IN  SubSeq(s, 1, k - 1) \o new \o SubSeq(s, k + 1, Len(s))

\* Line 139: repo_url.replace("https://", f"https://{token}@", 1)
AuthRepoUrl(url, tok) == ReplaceFirst(url, "https://", <<"https://", tok, "@">>)

\* Line 141: git remote add origin <auth_repo_url>; git records the URL as
\* remote.origin.url in .git/config.
RemoteAdd ==
    /\ Running("create", "remote_add")
    /\ Log(<<"git", "remote add">>)
    /\ LET url == AuthRepoUrl(CloneUrl, token)
           cmd == <<"git", "remote", "add", "origin">> \o url
       IN  \E ok \in BOOLEAN :
             IF ok
               THEN /\ git' = [git EXCEPT !.origin = url]
                    /\ Goto("push")
               ELSE /\ Raise("ProcessFailure", ShellError(cmd))
                    /\ UNCHANGED git
    /\ UNCHANGED <<dirExists, files, gitignore, credToken, remoteVars, hostVars,
                   op, args, token, calls, made, cli>>
    /\ UNCHANGED unitVars

\* Push with a cleanup of the remote repository when the push fails.
Push_CleanupOnFailure ==
    /\ Running("create", "push")
    /\ \E ok \in BOOLEAN :
         IF ok
           THEN /\ Log(<<"git", "push">>)
                /\ remoteFiles' = git.committed
                /\ Goto("summary")
                /\ UNCHANGED remoteRepo
           ELSE /\ trace' = trace \o <<(<<"git", "push">>),
                                        (<<"DELETE /repos", "200">>)>>
                /\ Raise("ProcessFailure",
                         ShellError(<<"git", "push", "-u", "origin", "main">>))
                /\ remoteRepo' = FALSE
                /\ UNCHANGED remoteFiles
    /\ UNCHANGED <<fsVars, hostVars, op, args, token, calls, made, cli>>
    /\ UNCHANGED unitVars

\* Line 142: git push -u origin main
Push ==
    /\ Running("create", "push")
    /\ Log(<<"git", "push">>)
    /\ \E ok \in BOOLEAN :
         IF ok
           THEN /\ remoteFiles' = git.committed
                /\ Goto("summary")
           ELSE /\ Raise("ProcessFailure",
                         ShellError(<<"git", "push", "-u", "origin", "main">>))
                /\ UNCHANGED remoteFiles
    /\ UNCHANGED <<fsVars, remoteRepo, hostVars, op, args, token, calls, made, cli>>
    /\ UNCHANGED unitVars

\* Line 145: print_project_summary; create_project returns.
Summary ==
    /\ Running("create", "summary")
    /\ Log(<<"summary", args.lang>>)
    /\ result' = "ok"
    /\ pc' = "done"
    /\ made' = [ok |-> TRUE, github |-> args.github, lang |-> args.lang,
                devcontainer |-> args.devcontainer, template |-> args.template,
                tutorial |-> args.tutorial]
    /\ UNCHANGED <<fsVars, remoteVars, hostVars, op, args, token, errText, calls,
                   cli>>
    /\ UNCHANGED unitVars

\* ------------------------------------------------------ delete_project

CallDelete ==
    /\ Idle
    /\ calls < MaxCalls
    /\ \E gh \in BOOLEAN : args' = [NoArgs EXCEPT !.github = gh]
    /\ op' = "delete"
    /\ pc' = "exists"
    /\ result' = "running"
    /\ errText' = <<>>
    /\ token' = ""
    /\ trace' = <<>>
    /\ calls' = calls + 1
    /\ UNCHANGED <<fsVars, remoteVars, hostVars, made, cli>>
    /\ UNCHANGED unitVars

\* DeleteExists with the local tree removed before the remote deletion.
DeleteExists_RmtreeFirst ==
    /\ Running("delete", "exists")
    /\ IF dirExists
         THEN /\ Goto(IF args.github THEN "token" ELSE "rmtree")
              /\ files' = NoFiles
              /\ gitignore' = <<>>
              /\ credToken' = ""
              /\ git' = NoGit
         ELSE /\ Raise("NotFound", <<"path", " does not exist">>)
              /\ UNCHANGED <<files, gitignore, credToken, git>>
    /\ UNCHANGED <<dirExists, remoteVars, hostVars, op, args, token, trace,
                   calls, made, cli>>
    /\ UNCHANGED unitVars

\* Lines 157-161: the existence check, then the github gate.
DeleteExists ==
    /\ Running("delete", "exists")
    /\ IF dirExists
         THEN Goto(IF args.github THEN "token" ELSE "rmtree")
         ELSE Raise("NotFound", <<"path", " does not exist">>)
    /\ UNCHANGED <<fsVars, remoteVars, hostVars, op, args, token, trace, calls, made, cli>>
    /\ UNCHANGED unitVars

\* DeleteToken with the sources swapped: environment first, file second.
DeleteToken_EnvFirst ==
    /\ Running("delete", "token")
    /\ LET fromFile == get_project_token
           tok == IF envToken # "" THEN envToken ELSE fromFile
       IN  /\ token' = tok
           /\ trace' = IF envToken # ""
                         THEN Append(trace, <<"getenv", envToken>>)
                         ELSE trace \o <<(<<"getenv", "">>),
                                         (<<"get_project_token", fromFile>>)>>
           /\ IF tok = ""
                THEN Raise("MissingCredential",
                  <<"No GitHub token found in .projinit.env or $GITHUB_TOKEN">>)
                ELSE Goto("user")
    /\ UNCHANGED <<fsVars, remoteVars, hostVars, op, args, calls, made, cli>>
    /\ UNCHANGED unitVars

\* Lines 162-166: token = get_project_token(path) or os.getenv(...); no prompt.
DeleteToken ==
    /\ Running("delete", "token")
    /\ LET fromFile == get_project_token
           tok == IF fromFile # "" THEN fromFile ELSE envToken
       IN  /\ token' = tok
           /\ trace' = IF fromFile # ""
                         THEN Append(trace, <<"get_project_token", fromFile>>)
                         ELSE trace \o <<(<<"get_project_token", "">>),
                                         (<<"getenv", envToken>>)>>
           /\ IF tok = ""
                THEN Raise("MissingCredential",
                  <<"No GitHub token found in .projinit.env or $GITHUB_TOKEN">>)
                ELSE Goto("user")
    /\ UNCHANGED <<fsVars, remoteVars, hostVars, op, args, calls, made, cli>>
    /\ UNCHANGED unitVars

\* Line 167: owner = get_github_user(token): GET /user
DeleteUser ==
    /\ Running("delete", "user")
    /\ \E st \in Statuses :
         /\ Log(<<"GET /user", ToString(st)>>)
         /\ IF ApiFailed(st)
              THEN Raise("RemoteAPIError", ApiError(st))
              ELSE Goto("delete_repo")
    /\ UNCHANGED <<fsVars, remoteVars, hostVars, op, args, token, calls, made, cli>>
    /\ UNCHANGED unitVars

\* Line 168: delete_github_repo(owner, path.name, token): DELETE /repos/...
\* The service answers with success only for a repository that exists.
DeleteRepo ==
    /\ Running("delete", "delete_repo")
    /\ \E st \in Statuses :
         /\ Is2xx(st) => remoteRepo
         /\ remoteRepo' = (remoteRepo /\ ~Is2xx(st))
         /\ remoteFiles' = IF Is2xx(st) THEN {} ELSE remoteFiles
         /\ Log(<<"DELETE /repos", ToString(st)>>)
         /\ IF ApiFailed(st)
              THEN Raise("RemoteAPIError", ApiError(st))
              ELSE Goto("rmtree")
    /\ UNCHANGED <<fsVars, hostVars, op, args, token, calls, made, cli>>
    /\ UNCHANGED unitVars

\* Rmtree that gives up on the virtual environment and leaves the rest.
Rmtree_KeepsVenv ==
    /\ Running("delete", "rmtree")
    /\ Log(<<"rmtree", "">>)
    /\ IF ".venv" \in DOMAIN files
         THEN /\ files' = [n \in {".venv"} |-> "dir"]
              /\ UNCHANGED dirExists
         ELSE /\ files' = NoFiles
              /\ dirExists' = FALSE
    /\ gitignore' = <<>>
    /\ credToken' = ""
    /\ git' = NoGit
    /\ result' = "ok"
    /\ pc' = "done"
    /\ UNCHANGED <<remoteVars, hostVars, op, args, token, errText, calls, made, cli>>
    /\ UNCHANGED unitVars

\* Line 171: shutil.rmtree(path); delete_project returns.
Rmtree ==
    /\ Running("delete", "rmtree")
    /\ Log(<<"rmtree", "">>)
    /\ dirExists' = FALSE
    /\ files' = NoFiles
    /\ gitignore' = <<>>
    /\ credToken' = ""
    /\ git' = NoGit
    /\ result' = "ok"
    /\ pc' = "done"
    /\ UNCHANGED <<remoteVars, hostVars, op, args, token, errText, calls, made, cli>>
    /\ UNCHANGED unitVars

\* ------------------------------------------------------ validation
\* src/sparkstart/validation.py.  A name is a sequence of one-character
\* strings.

LowerLetters == <<"a", "b", "c", "d", "e", "f", "g", "h", "i", "j", "k", "l",
                  "m", "n", "o", "p", "q", "r", "s", "t", "u", "v", "w", "x",
                  "y", "z">>

UpperLetters == <<"A", "B", "C", "D", "E", "F", "G", "H", "I", "J", "K", "L",
                  "M", "N", "O", "P", "Q", "R", "S", "T", "U", "V", "W", "X",
                  "Y", "Z">>

Digits == {"0", "1", "2", "3", "4", "5", "6", "7", "8", "9"}

\* [a-zA-Z_]
HeadClass == {LowerLetters[i] : i \in DOMAIN LowerLetters}
               \cup {UpperLetters[i] : i \in DOMAIN UpperLetters} \cup {"_"}

\* [a-zA-Z0-9_-]
TailClass == HeadClass \cup Digits \cup {"-"}

\* str.lower() of one character, and of a name.
LowerChar(c) ==
    IF \E i \in DOMAIN UpperLetters : UpperLetters[i] = c
      THEN LowerLetters[CHOOSE i \in DOMAIN UpperLetters : UpperLetters[i] = c]
      ELSE c

\* The comparison made on the name as typed.
Lower_AsTyped(name) == name

Lower(name) == [i \in DOMAIN name |-> LowerChar(name[i])]

\* re.match(r"^[a-zA-Z_][a-zA-Z0-9_-]*$", name): "$" matches at the end of
\* the string and also just before a newline that ends the string.
NameRegexMatch(name) ==
    /\ Len(name) >= 1
    /\ name[1] \in HeadClass
    /\ LET last == IF name[Len(name)] = "\n" THEN Len(name) - 1 ELSE Len(name)
       IN  \A i \in 2..last : name[i] \in TailClass

MaxNameLen == 50

Reserved == {<<"t", "e", "s", "t">>, <<"b", "u", "i", "l", "d">>,
             <<"d", "i", "s", "t">>, <<"e", "n", "v">>,
             <<"v", "e", "n", "v">>}

\* The message of the ValidationError validate_project_name raises, "" when
\* it raises none: the four checks in the order of the code.
NameError(name) ==
    IF name = <<>> THEN "Project name cannot be empty"
    ELSE IF Len(name) > MaxNameLen
      THEN "Project name must be 50 characters or less"
    ELSE IF ~NameRegexMatch(name)
      THEN "Project name must start with letter or underscore"
    ELSE IF Lower(name) \in Reserved THEN "is a reserved project name"
    ELSE ""

\* validate_project_name(name): the name itself, or a ValidationError.
validate_project_name(name) ==
    IF NameError(name) = ""
      THEN [ok |-> TRUE, value |-> name, error |-> ""]
      ELSE [ok |-> FALSE, value |-> <<>>, error |-> NameError(name)]

\* validate_language(lang)
validate_language(lang) ==
    IF lang \in SupportedLangs
      THEN [ok |-> TRUE, value |-> lang, error |-> ""]
      ELSE [ok |-> FALSE, value |-> "", error |-> "Invalid language"]

VALID_TEMPLATES == [l \in {"python"} |-> {"pygame"}]

\* validate_template that looks the template up in the python list whatever
\* the language is.
validate_template_AnyLang(template, lang) ==
    IF template = "None" \/ template \in VALID_TEMPLATES["python"]
      THEN [ok |-> TRUE, value |-> template, error |-> ""]
      ELSE [ok |-> FALSE, value |-> "", error |-> "Invalid template"]

\* validate_template(template, lang): None passes before the language is
\* looked at.
validate_template(template, lang) ==
    IF template = "None"
      THEN [ok |-> TRUE, value |-> template, error |-> ""]
    ELSE IF lang \notin DOMAIN VALID_TEMPLATES
      THEN [ok |-> FALSE, value |-> "", error |-> "Templates not available"]
    ELSE IF template \notin VALID_TEMPLATES[lang]
      THEN [ok |-> FALSE, value |-> "", error |-> "Invalid template"]
    ELSE [ok |-> TRUE, value |-> template, error |-> ""]

\* ------------------------------------------------------ command line
\* src/sparkstart/cli.py: the commands `new` (direct mode: the name is given
\* on the command line) and `delete`.  The arguments passed on to the
\* orchestrator are in args; lang "None" is an omitted --lang.

\* The name of the modelled project path under the working directory.
ProjectName == <<"a", "p", "p">>

\* Names given on the command line: the project's, one that starts with a
\* digit, a reserved one.
CliNames == {ProjectName, <<"7", "a">>, <<"e", "n", "v">>}

\* check_project_exists(name): the path of that name exists.
check_project_exists(name) == name = ProjectName /\ dirExists

\* sparkstart new NAME [--github] [--lang L] [--template T] [--tutorial]
\*                     [--devcontainer] [--tools]
CallNew ==
    /\ Idle
    /\ calls < MaxCalls
    /\ \E n \in CliNames, gh \in BOOLEAN, l \in Langs \cup {"None"},
          dc \in BOOLEAN, tp \in Templates, tu \in BOOLEAN, tl \in BOOLEAN :
          /\ args' = [github |-> gh, lang |-> l, devcontainer |-> dc,
                      template |-> tp, tutorial |-> tu]
          /\ cli' = [cmd |-> "new", name |-> n, tools |-> tl, force |-> FALSE,
                     exit |-> -1]
    /\ pc' = "new_validate"
    /\ result' = "running"
    /\ errText' = <<>>
    /\ token' = ""
    /\ trace' = <<>>
    /\ calls' = calls + 1
    /\ UNCHANGED <<fsVars, remoteVars, hostVars, op, made>>
    /\ UNCHANGED unitVars

\* typer.Exit(code) and every exception that leaves the command: the
\* process ends with that status.
Exit(code, kind, text) ==
    /\ cli' = [cli EXCEPT !.exit = code]
    /\ result' = kind
    /\ errText' = text
    /\ pc' = "exited"

\* The language the checks of `new` go on with.
LangOrDefault(lang) == IF lang = "None" THEN "python" ELSE lang

\* NewValidate without the template check.
NewValidate_SkipsTemplate ==
    /\ cli.cmd = "new" /\ pc = "new_validate"
    /\ LET name == validate_project_name(cli.name)
           lang == LangOrDefault(args.lang)
       IN  IF ~name.ok
             THEN Exit(1, "InvalidName", <<name.error>>) /\ UNCHANGED args
           ELSE IF check_project_exists(cli.name)
             THEN Exit(1, "AlreadyExists", <<"already exists">>)
                    /\ UNCHANGED args
           ELSE IF args.lang # "None" /\ ~validate_language(args.lang).ok
             THEN Exit(1, "UnsupportedLanguage",
                       <<validate_language(args.lang).error>>)
                    /\ UNCHANGED args
           ELSE /\ args' = [args EXCEPT !.lang = lang]
                /\ pc' = IF args.devcontainer THEN "new_checks" ELSE "new_call"
                /\ UNCHANGED <<cli, result, errText>>
    /\ UNCHANGED <<fsVars, remoteVars, hostVars, op, token, trace, calls, made>>
    /\ UNCHANGED unitVars

\* Lines 99-119 of new: the name check, the already-exists check, the
\* language check (or the default language) and the template check, each
\* ending the command with status 1 when it fails.
NewValidate ==
    /\ cli.cmd = "new" /\ pc = "new_validate"
    /\ LET name == validate_project_name(cli.name)
           lang == LangOrDefault(args.lang)
       IN  IF ~name.ok
             THEN Exit(1, "InvalidName", <<name.error>>) /\ UNCHANGED args
           ELSE IF check_project_exists(cli.name)
             THEN Exit(1, "AlreadyExists", <<"already exists">>)
                    /\ UNCHANGED args
           ELSE IF args.lang # "None" /\ ~validate_language(args.lang).ok
             THEN Exit(1, "UnsupportedLanguage",
                       <<validate_language(args.lang).error>>)
                    /\ UNCHANGED args
           ELSE IF ~validate_template(args.template, lang).ok
             THEN Exit(1, "UnsupportedTemplate",
                       <<validate_template(args.template, lang).error>>)
                    /\ UNCHANGED args
           ELSE /\ args' = [args EXCEPT !.lang = lang]
                /\ pc' = IF args.devcontainer THEN "new_checks" ELSE "new_call"
                /\ UNCHANGED <<cli, result, errText>>
    /\ UNCHANGED <<fsVars, remoteVars, hostVars, op, token, trace, calls, made>>
    /\ UNCHANGED unitVars

\* Lines 121-123: check_docker() and check_vscode() warn and open a download
\* page for a tool that is not installed; neither ends the command.
NewChecks ==
    /\ cli.cmd = "new" /\ pc = "new_checks"
    /\ \E docker \in BOOLEAN, code \in BOOLEAN :
         trace' = trace
                    \o (IF docker THEN <<>> ELSE <<(<<"warn", "docker">>)>>)
                    \o (IF code THEN <<>> ELSE <<(<<"warn", "code">>)>>)
    /\ pc' = "new_call"
    /\ UNCHANGED <<fsVars, remoteVars, hostVars, op, args, token, result,
                   errText, calls, made, cli>>
    /\ UNCHANGED unitVars

\* The number of positional parameters of core.create_project, and of the
\* positional arguments the call of line 125 passes.
CreateProjectParams == 6

NewCallArgs == 7

\* Line 125: create_project(path, github, lang, devcontainer, template,
\* tutorial, tools).  The call binds its arguments before the body runs;
\* more positional arguments than parameters is a TypeError, which leaves
\* the command uncaught.
NewCall ==
    /\ cli.cmd = "new" /\ pc = "new_call"
    /\ IF NewCallArgs > CreateProjectParams
         THEN /\ Exit(1, "TypeError",
                      <<"create_project() takes from 1 to 6 positional ",
                        "arguments but 7 were given">>)
              /\ UNCHANGED <<op, trace>>
         ELSE /\ op' = "create"
              /\ pc' = "mkdir"
              /\ trace' = <<>>
              /\ UNCHANGED <<cli, result, errText>>
    /\ UNCHANGED <<fsVars, remoteVars, hostVars, args, token, calls, made>>
    /\ UNCHANGED unitVars

\* sparkstart delete NAME [--github] [--yes]
CallCliDelete ==
    /\ Idle
    /\ calls < MaxCalls
    /\ \E gh \in BOOLEAN, yes \in BOOLEAN :
          /\ args' = [NoArgs EXCEPT !.github = gh]
          /\ cli' = [cmd |-> "delete", name |-> ProjectName, tools |-> FALSE,
                     force |-> yes, exit |-> -1]
    /\ pc' = "confirm"
    /\ result' = "running"
    /\ errText' = <<>>
    /\ token' = ""
    /\ trace' = <<>>
    /\ calls' = calls + 1
    /\ UNCHANGED <<fsVars, remoteVars, hostVars, op, made>>
    /\ UNCHANGED unitVars

\* Lines 136-142 of delete: without --yes, typer.confirm(abort=True) ends
\* the command when the answer is no or cannot be read; then delete_project
\* is called.
CliConfirm ==
    /\ cli.cmd = "delete" /\ pc = "confirm"
    /\ \E answer \in BOOLEAN :
         IF cli.force \/ (interactive /\ answer)
           THEN /\ op' = "delete"
                /\ pc' = "exists"
                /\ UNCHANGED <<cli, result, errText>>
           ELSE /\ Exit(1, "Abort", <<"Aborted">>)
                /\ UNCHANGED op
    /\ UNCHANGED <<fsVars, remoteVars, hostVars, args, token, trace, calls,
                   made>>
    /\ UNCHANGED unitVars

\* Lines 143-145 of delete: "Project deleted !" after delete_project
\* returned; an Exception it raised is caught and printed as "Failed : e".
\* The command returns normally in both cases.
CliDeleteReport ==
    /\ cli.cmd = "delete" /\ op = "delete" /\ Ended
    /\ Log(<<"echo", IF result = "ok" THEN "Project deleted !" ELSE "Failed">>)
    /\ cli' = [cli EXCEPT !.exit = 0]
    /\ pc' = "exited"
    /\ UNCHANGED <<fsVars, remoteVars, hostVars, op, args, token, result,
                   errText, calls, made>>
    /\ UNCHANGED unitVars

\* ------------------------------------------------------ process exit

\* The call has returned or raised; the process ends and its locals are gone.
Return ==
    /\ IF cli.cmd = "none" THEN Ended ELSE pc = "exited"
    /\ op' = "none"
    /\ pc' = "idle"
    /\ args' = NoArgs
    /\ token' = ""
    /\ result' = "none"
    /\ errText' = <<>>
    /\ trace' = <<>>
    /\ made' = IF dirExists THEN made ELSE NoMade
    /\ cli' = NoCli
    /\ UNCHANGED <<fsVars, remoteVars, hostVars, calls>>
    /\ UNCHANGED unitVars

Next ==
    \/ SetEnvToken
    \/ SetInteractive
    \/ CallCreate
    \/ Mkdir
    \/ SourceScaffold
    \/ DockerCheck
    \/ ScaffoldDevcontainer
    \/ ScaffoldDirenv
    \/ ScaffoldCompose
    \/ ScaffoldGettingStarted
    \/ GitCheck
    \/ ResolveToken
    \/ Prompt
    \/ SaveToken
    \/ GitInit
    \/ GitAdd
    \/ GitCommit
    \/ CreateRepo
    \/ RemoteAdd
    \/ Push
    \/ Summary
    \/ CallDelete
    \/ DeleteExists
    \/ DeleteToken
    \/ DeleteUser
    \/ DeleteRepo
    \/ Rmtree
    \/ Return

Spec == Init /\ [][Next]_vars

\* ------------------------------------------------------ the validators alone
\* validate_project_name, validate_language and validate_template applied to
\* inputs a caller may pass.  The function under test is op, its inputs are
\* cli.name, args.lang and args.template, its outcome is result and errText.

\* Nothing has happened on the project path, the remote or the host.
Untouched ==
    /\ dirExists = FALSE
    /\ files = NoFiles
    /\ gitignore = <<>>
    /\ credToken = ""
    /\ git = NoGit
    /\ remoteRepo = FALSE
    /\ remoteFiles = {}
    /\ interactive = TRUE
    /\ trace = <<>>
    /\ calls = 0
    /\ made = NoMade
    /\ manifest = NoManifest
    /\ spinner = NoSpinner

\* Characters of the names tried: letters of both cases, a digit, the two
\* punctuation marks of the pattern, a space and a newline.
NameChars == {"a", "E", "e", "n", "v", "7", "_", "-", " ", "\n"}

\* Every sequence of NameChars of at most MaxBase characters is tried.
MaxBase == 3

BaseNames == UNION {[1..k -> NameChars] : k \in 0..MaxBase}

\* A name followed by n more letters.
Pad(name, n) == name \o [i \in 1..n |-> "a"]

\* Paddings that bring the names to either side of the length limit.
PadLens == {0, MaxNameLen - 2, MaxNameLen - 1}

\* str.upper() of one lower-case letter.
UpperChar(c) ==
    UpperLetters[CHOOSE i \in DOMAIN LowerLetters : LowerLetters[i] = c]

\* Every spelling of a word in lower-case and upper-case letters.
Spellings(w) ==
    LET letters == UNION {{w[i], UpperChar(w[i])} : i \in DOMAIN w}
    IN  {n \in [DOMAIN w -> letters] :
           \A i \in DOMAIN w : n[i] \in {w[i], UpperChar(w[i])}}

\* The reserved names in every spelling, and each followed by one more
\* character.
ReservedInputs ==
    LET spelt == UNION {Spellings(w) : w \in Reserved}
    IN  spelt \cup {Append(n, c) : n \in spelt, c \in {"s", "_", "\n"}}

NameInputs ==
    {Pad(b, n) : b \in BaseNames, n \in PadLens} \cup ReservedInputs

TemplateInputs == Templates \cup {"flask"}

InitValidation ==
    /\ Untouched
    /\ envToken = ""
    /\ token = ""
    /\ pc = "unit"
    /\ result = "none"
    /\ errText = <<>>
    /\ \/ /\ op = "validate_project_name"
          /\ cli \in {[NoCli EXCEPT !.name = n] : n \in NameInputs}
          /\ args = NoArgs
       \/ /\ op = "validate_language"
          /\ cli = NoCli
          /\ args \in {[NoArgs EXCEPT !.lang = l] : l \in Langs}
       \/ /\ op = "validate_template"
          /\ cli = NoCli
          /\ args \in {[NoArgs EXCEPT !.lang = l, !.template = t] :
                         l \in Langs, t \in TemplateInputs}

\* The outcome of one validator: its value is returned or its error raised.
Outcome(v, kind) ==
    /\ result' = IF v.ok THEN "ok" ELSE kind
    /\ errText' = IF v.ok THEN <<>> ELSE <<v.error>>
    /\ pc' = "returned"
    /\ UNCHANGED <<fsVars, remoteVars, hostVars, op, args, token, trace, calls,
                   made, cli>>

ApplyValidateName ==
    /\ op = "validate_project_name" /\ pc = "unit"
    /\ Outcome(validate_project_name(cli.name), "InvalidName")
    /\ UNCHANGED unitVars

ApplyValidateLanguage ==
    /\ op = "validate_language" /\ pc = "unit"
    /\ Outcome(validate_language(args.lang), "UnsupportedLanguage")
    /\ UNCHANGED unitVars

ApplyValidateTemplate ==
    /\ op = "validate_template" /\ pc = "unit"
    /\ Outcome(validate_template(args.template, args.lang),
               "UnsupportedTemplate")
    /\ UNCHANGED unitVars

NextValidation ==
    \/ ApplyValidateName
    \/ ApplyValidateLanguage
    \/ ApplyValidateTemplate

SpecValidation == InitValidation /\ [][NextValidation]_vars

\* ------------------------------------------------ the credential store alone
\* save_project_token called again and again on one project directory, as a
\* library.  The directory is one create_project has scaffolded, or an
\* empty one; trace holds the calls, calls their number.

\* Number of save_project_token calls on the directory.
MaxSaves == 3

\* The entries create_project has written when its source scaffold is done.
ScaffoldedFiles(lang, tutorial) ==
    IF tutorial
      THEN TutorialFiles(lang)
      ELSE WriteAll(Write(NoFiles, "README.md", ReadmeTag(lang)),
                    StandardFiles(lang, "None"))

ScaffoldedIgnore(lang, tutorial) ==
    IF tutorial THEN GitignoreTutorial(lang) ELSE GitignoreStandard(lang)

InitCredentials ==
    /\ dirExists = TRUE
    /\ \/ files = NoFiles /\ gitignore = <<>>
       \/ \E l \in SupportedLangs, tu \in BOOLEAN :
             /\ files = ScaffoldedFiles(l, tu)
             /\ gitignore = ScaffoldedIgnore(l, tu)
    /\ credToken = ""
    /\ git = NoGit
    /\ remoteRepo = FALSE
    /\ remoteFiles = {}
    /\ envToken = ""
    /\ interactive = TRUE
    /\ op = "save_project_token"
    /\ pc = "unit"
    /\ args = NoArgs
    /\ token = ""
    /\ result = "none"
    /\ errText = <<>>
    /\ trace = <<>>
    /\ calls = 0
    /\ made = NoMade
    /\ cli = NoCli
    /\ manifest = NoManifest
    /\ spinner = NoSpinner

ApplySaveToken ==
    /\ op = "save_project_token" /\ pc = "unit"
    /\ calls < MaxSaves
    /\ \E t \in Tokens :
         /\ save_project_token(t)
         /\ Log(<<"save_project_token", t>>)
    /\ calls' = calls + 1
    /\ UNCHANGED <<dirExists, git, remoteVars, hostVars, op, pc, args, token,
                   result, errText, made, cli>>
    /\ UNCHANGED unitVars

NextCredentials == ApplySaveToken

SpecCredentials == InitCredentials /\ [][NextCredentials]_vars

\* ------------------------------------------------------ the command line
\* The commands `new` and `delete` run on a working directory in which the
\* project path is absent, or holds a project create_project has completed
\* as a library call: a cpp project, without or with a remote repository
\* and the token pasted at the prompt.

\* The directory after create_project(path, github, "cpp") with the default
\* flags: README, sources, guide, and with github the credential file.
CreatedFiles(github) ==
    LET f == Write(ScaffoldedFiles("cpp", FALSE), "GETTING_STARTED.md", "guide")
    IN  IF github THEN Write(f, CredFile, "GITHUB_TOKEN") ELSE f

\* Its repository: everything that is not ignored is committed.
CreatedGit(github, tok) ==
    LET tracked == {n \in DOMAIN CreatedFiles(github) :
                      ~Ignored(n, GITIGNORE_CPP)}
    IN  [repo |-> TRUE, staged |-> tracked, committed |-> tracked,
         origin |-> IF github THEN AuthRepoUrl(CloneUrl, tok) ELSE <<>>]

InitCli ==
    /\ \/ /\ dirExists = FALSE
          /\ files = NoFiles
          /\ gitignore = <<>>
          /\ credToken = ""
          /\ git = NoGit
          /\ remoteRepo = FALSE
          /\ remoteFiles = {}
          /\ made = NoMade
       \/ \E gh \in BOOLEAN, tok \in Tokens :
             /\ ~gh => tok = "tokA"
             /\ dirExists = TRUE
             /\ files = CreatedFiles(gh)
             /\ gitignore = GITIGNORE_CPP
             /\ credToken = IF gh THEN tok ELSE ""
             /\ git = CreatedGit(gh, tok)
             /\ remoteRepo = gh
             /\ remoteFiles = IF gh THEN CreatedGit(gh, tok).committed ELSE {}
             /\ made = [ok |-> TRUE, github |-> gh, lang |-> "cpp",
                        devcontainer |-> FALSE, template |-> "None",
                        tutorial |-> FALSE]
    /\ envToken = ""
    /\ interactive = TRUE
    /\ op = "none"
    /\ pc = "idle"
    /\ args = NoArgs
    /\ token = ""
    /\ result = "none"
    /\ errText = <<>>
    /\ trace = <<>>
    /\ calls = 0
    /\ cli = NoCli
    /\ manifest = NoManifest
    /\ spinner = NoSpinner

NextCli ==
    \/ SetEnvToken
    \/ SetInteractive
    \/ CallNew
    \/ NewValidate
    \/ NewChecks
    \/ NewCall
    \/ CallCliDelete
    \/ CliConfirm
    \/ DeleteExists
    \/ DeleteToken
    \/ DeleteUser
    \/ DeleteRepo
    \/ Rmtree
    \/ CliDeleteReport
    \/ Return

SpecCli == InitCli /\ [][NextCli]_vars

\* ------------------------------------------------------ the API client alone
\* get_github_user, create_github_repo and delete_github_repo applied to a
\* token and to every status the hosting service may answer with.  The
\* function under test is op; the request and its status are the one event
\* of trace; the outcome is result and errText.

\* Statuses of the final response of a request (100 Continue is consumed by
\* the HTTP layer and never the final status).
StatusInputs == 101..599

InitGithub ==
    /\ Untouched
    /\ pc = "unit"
    /\ result = "none"
    /\ errText = <<>>
    /\ args = NoArgs
    /\ cli = NoCli
    /\ op \in {"get_github_user", "create_github_repo", "delete_github_repo"}
    /\ token \in Tokens \cup {""}
    /\ envToken \in Tokens \cup {""}

\* The lines after the request of a client function: a status of 300 or
\* more raises RuntimeError with the status and the body.  Otherwise, when
\* readsBody, r.json()[key] is evaluated: the documented body of a 2xx
\* answer holds the key; the body of any other answer may or may not parse.
Respond(st, readsBody) ==
    /\ pc' = "returned"
    /\ IF ApiFailed(st)
         THEN result' = "RemoteAPIError" /\ errText' = ApiError(st)
         ELSE IF Is2xx(st) \/ ~readsBody
           THEN result' = "ok" /\ errText' = <<>>
           ELSE \/ result' = "ok" /\ errText' = <<>>
                \/ result' = "JSONDecodeError" /\ errText' = <<"body">>

ApplyGetUser ==
    /\ op = "get_github_user" /\ pc = "unit"
    /\ \E st \in StatusInputs :
         /\ Log(<<"GET /user", ToString(st)>>)
         /\ Respond(st, TRUE)
    /\ UNCHANGED <<fsVars, remoteVars, hostVars, op, args, token, calls, made,
                   cli>>
    /\ UNCHANGED unitVars

\* create_github_repo that posts first and looks at the token afterwards.
ApplyCreateRepo_RequestFirst ==
    /\ op = "create_github_repo" /\ pc = "unit"
    /\ LET tok == IF token # "" THEN token ELSE envToken
       IN  \E st \in StatusInputs :
             /\ Log(<<"POST /user/repos", ToString(st)>>)
             /\ IF tok = ""
                  THEN /\ result' = "MissingCredential"
                       /\ errText' = <<"GitHub token not provided.">>
                       /\ pc' = "returned"
                  ELSE Respond(st, TRUE)
    /\ UNCHANGED <<fsVars, remoteVars, hostVars, op, args, token, calls, made,
                   cli>>
    /\ UNCHANGED unitVars

\* create_github_repo(repo_name, token): token or $GITHUB_TOKEN, no request
\* without one.
ApplyCreateRepo ==
    /\ op = "create_github_repo" /\ pc = "unit"
    /\ LET tok == IF token # "" THEN token ELSE envToken
       IN  IF tok = ""
             THEN /\ result' = "MissingCredential"
                  /\ errText' = <<"GitHub token not provided.">>
                  /\ pc' = "returned"
                  /\ UNCHANGED trace
             ELSE \E st \in StatusInputs :
                    /\ Log(<<"POST /user/repos", ToString(st)>>)
                    /\ Respond(st, TRUE)
    /\ UNCHANGED <<fsVars, remoteVars, hostVars, op, args, token, calls, made,
                   cli>>
    /\ UNCHANGED unitVars

ApplyDeleteRepo ==
    /\ op = "delete_github_repo" /\ pc = "unit"
    /\ \E st \in StatusInputs :
         /\ Log(<<"DELETE /repos", ToString(st)>>)
         /\ Respond(st, FALSE)
    /\ UNCHANGED <<fsVars, remoteVars, hostVars, op, args, token, calls, made,
                   cli>>
    /\ UNCHANGED unitVars

NextGithub ==
    \/ ApplyGetUser
    \/ ApplyCreateRepo
    \/ ApplyDeleteRepo

SpecGithub == InitGithub /\ [][NextGithub]_vars

\* ------------------------------------------------ the scaffolders alone
\* The auxiliary scaffolders, the tools scaffolder and the guide scaffolder
\* called on their own, as a library, on a project directory and with any
\* language.  op is the scaffolder; scaffold_tools may be called again on the
\* directory it has processed; calls counts the calls.

\* Number of scaffold_tools calls on one directory.
MaxToolRuns == 2

ScaffolderNames == {"scaffold_devcontainer", "scaffold_direnv",
                    "scaffold_compose", "scaffold_tools",
                    "scaffold_getting_started"}

\* The sections _scaffold_python_tools adds to pyproject.toml, in its order.
ToolSections == <<"[tool.black]", "[tool.ruff]", "[tool.mypy]">>

\* NPM_SCRIPTS_JAVASCRIPT as name-command pairs.
NPM_SCRIPTS_JAVASCRIPT ==
    {<<"lint", "eslint">>, <<"lint:fix", "eslint --fix">>,
     <<"format", "prettier --write">>, <<"format:check", "prettier --check">>,
     <<"type-check", "tsc --noEmit">>}

\* Contents of a pyproject.toml found in the directory.
PyprojectInputs ==
    {<<"[project]">>, <<"[project]", "[tool.ruff]">>,
     <<"[project]", "[tool.mypy]", "[tool.black]">>,
     <<"[project]", "[tool.black]", "[tool.ruff]", "[tool.mypy]">>}

\* Contents of a package.json found in the directory: malformed, without
\* scripts, with scripts of its own, with a script named as one of the tools'.
PackageInputs ==
    {[parses |-> FALSE, hasScripts |-> FALSE, scripts |-> {},
      layout |-> "as written"],
     [parses |-> TRUE, hasScripts |-> FALSE, scripts |-> {},
      layout |-> "as written"],
     [parses |-> TRUE, hasScripts |-> TRUE, scripts |-> {<<"test", "jest">>},
      layout |-> "as written"],
     [parses |-> TRUE, hasScripts |-> TRUE,
      scripts |-> {<<"test", "jest">>, <<"lint", "standard">>},
      layout |-> "as written"]}

\* content += section when the marker is not in content.
AddSection(content, section) ==
    IF Contains(content, section) THEN content ELSE Append(content, section)

\* Lines 69-77: the three markers looked for, one after the other.
PyprojectAfterTools(content) ==
    AddSection(AddSection(AddSection(content, ToolSections[1]),
                          ToolSections[2]), ToolSections[3])

\* Lines 59-64: the tools block is appended to a requirements-dev.txt that
\* exists, and is the whole file otherwise.
RequirementsAfterTools(exists, content) ==
    IF exists
      THEN content \o <<"# Development Tools", "REQUIREMENTS_PYTHON_TOOLS">>
      ELSE <<"REQUIREMENTS_PYTHON_TOOLS">>

\* dict.update: the entries of new replace the entries of the same name.
DictUpdate(scripts, new) ==
    {e \in scripts : \A n \in new : n[1] # e[1]} \cup new

\* Lines 136-145: a package.json that parses gets the scripts and is written
\* back with json.dumps(indent=2); one that does not parse is left alone.
PackageAfterTools(pkg) ==
    IF pkg.parses
      THEN [parses |-> TRUE, hasScripts |-> TRUE,
            scripts |-> DictUpdate(pkg.scripts, NPM_SCRIPTS_JAVASCRIPT),
            layout |-> "indent=2"]
      ELSE pkg

\* The files _scaffold_<lang>_tools writes besides the manifests.
ToolFiles(lang) ==
    CASE lang = "python" -> {"requirements-dev.txt"}
      [] lang = "rust" -> {"rustfmt.toml", "clippy.toml"}
      [] lang = "javascript" -> {".prettierrc", ".prettierignore",
                                 ".eslintignore"}
      [] lang = "cpp" -> {".clang-format"}
      [] OTHER -> {}

\* scaffold_tools(path, lang): the manifests after the call.
ManifestAfterTools(lang) ==
    CASE lang = "python" ->
           [manifest EXCEPT
              !.requirements =
                  RequirementsAfterTools("requirements-dev.txt" \in DOMAIN files,
                                         manifest.requirements),
              !.pyproject =
                  IF "pyproject.toml" \in DOMAIN files
                    THEN PyprojectAfterTools(manifest.pyproject)
                    ELSE manifest.pyproject]
      [] lang = "javascript" ->
           [manifest EXCEPT
              !.package = IF "package.json" \in DOMAIN files
                            THEN PackageAfterTools(manifest.package)
                            ELSE manifest.package]
      [] OTHER -> manifest

\* scaffold_tools(path, lang): the entries of the directory after the call.
FilesAfterTools(lang) ==
    LET written == {".editorconfig"} \cup ToolFiles(lang)
                     \cup (IF lang \in SupportedLangs
                             THEN {".pre-commit-config.yaml"} ELSE {})
    IN  [n \in (DOMAIN files) \cup written |->
           IF n \in written THEN "tools" ELSE files[n]]

InitScaffolders ==
    /\ dirExists = TRUE
    /\ credToken = ""
    /\ git = NoGit
    /\ remoteRepo = FALSE
    /\ remoteFiles = {}
    /\ envToken = ""
    /\ interactive = TRUE
    /\ pc = "unit"
    /\ token = ""
    /\ result = "none"
    /\ errText = <<>>
    /\ trace = <<>>
    /\ calls = 0
    /\ made = NoMade
    /\ cli = NoCli
    /\ spinner = NoSpinner
    /\ op \in ScaffolderNames
    /\ \E l \in Langs, dc \in BOOLEAN, tu \in BOOLEAN, req \in BOOLEAN :
         LET base == IF l \in SupportedLangs THEN ScaffoldedFiles(l, tu)
                                             ELSE NoFiles
         IN  /\ args = [NoArgs EXCEPT !.lang = l, !.devcontainer = dc,
                                      !.tutorial = tu]
             /\ (l \notin SupportedLangs) => ~tu
             /\ files = IF req THEN Write(base, "requirements-dev.txt", "user")
                               ELSE base
             /\ gitignore = IF l \in SupportedLangs THEN ScaffoldedIgnore(l, tu)
                                                    ELSE <<>>
             /\ \E py \in PyprojectInputs, pkg \in PackageInputs :
                  manifest =
                    [requirements |-> IF req THEN <<"pytest">> ELSE <<>>,
                     pyproject |-> IF "pyproject.toml" \in DOMAIN base
                                     THEN py ELSE <<>>,
                     package |-> IF "package.json" \in DOMAIN base
                                   THEN pkg ELSE NoPackage]

\* The end of a scaffolder called on its own.
Returned(kind, text) ==
    /\ result' = kind
    /\ errText' = text
    /\ pc' = "returned"
    /\ calls' = calls + 1

ApplyScaffoldDevcontainer ==
    /\ op = "scaffold_devcontainer" /\ pc = "unit"
    /\ Log(<<"scaffold_devcontainer", args.lang>>)
    /\ IF args.lang \in SupportedLangs
         THEN /\ files' = Write(Write(files, ".devcontainer", "dir"),
                                ".devcontainer/devcontainer.json", args.lang)
              /\ Returned("ok", <<>>)
         ELSE /\ files' = Write(files, ".devcontainer", "dir")
              /\ Returned("UnsupportedLanguage",
                          UnsupportedFor("devcontainer", args.lang))
    /\ UNCHANGED <<dirExists, gitignore, credToken, git, remoteVars, hostVars,
                   op, args, token, made, cli, unitVars>>

ApplyScaffoldDirenv ==
    /\ op = "scaffold_direnv" /\ pc = "unit"
    /\ Log(<<"scaffold_direnv", args.lang>>)
    /\ IF args.lang \in SupportedLangs
         THEN /\ files' = Write(files, ".envrc", args.lang)
              /\ Returned("ok", <<>>)
         ELSE /\ UNCHANGED files
              /\ Returned("UnsupportedLanguage",
                          UnsupportedFor("direnv", args.lang))
    /\ UNCHANGED <<dirExists, gitignore, credToken, git, remoteVars, hostVars,
                   op, args, token, made, cli, unitVars>>

ApplyScaffoldCompose ==
    /\ op = "scaffold_compose" /\ pc = "unit"
    /\ Log(<<"scaffold_compose", args.lang>>)
    /\ IF args.lang \in SupportedLangs
         THEN /\ files' = Write(files, "compose.yaml", args.lang)
              /\ Returned("ok", <<>>)
         ELSE /\ UNCHANGED files
              /\ Returned("UnsupportedLanguage",
                          UnsupportedFor("compose", args.lang))
    /\ UNCHANGED <<dirExists, gitignore, credToken, git, remoteVars, hostVars,
                   op, args, token, made, cli, unitVars>>

\* get_getting_started looks the language up with dict.get(lang, ""): a
\* language it has no section for gets the guide without that section.
ApplyScaffoldGettingStarted ==
    /\ op = "scaffold_getting_started" /\ pc = "unit"
    /\ Log(<<"scaffold_getting_started", args.lang>>)
    /\ files' = Write(files, "GETTING_STARTED.md",
                      IF args.devcontainer THEN "guide_devcontainer" ELSE "guide")
    /\ Returned("ok", <<>>)
    /\ UNCHANGED <<dirExists, gitignore, credToken, git, remoteVars, hostVars,
                   op, args, token, made, cli, unitVars>>

\* scaffold_tools has no else branch and _scaffold_precommit_config writes
\* only for a language of its table: any language returns normally.
ApplyScaffoldTools ==
    /\ op = "scaffold_tools" /\ pc \in {"unit", "returned"}
    /\ calls < MaxToolRuns
    /\ Log(<<"scaffold_tools", args.lang>>)
    /\ files' = FilesAfterTools(args.lang)
    /\ manifest' = ManifestAfterTools(args.lang)
    /\ Returned("ok", <<>>)
    /\ UNCHANGED <<dirExists, gitignore, credToken, git, remoteVars, hostVars,
                   op, args, token, made, cli, spinner>>

NextScaffolders ==
    \/ ApplyScaffoldDevcontainer
    \/ ApplyScaffoldDirenv
    \/ ApplyScaffoldCompose
    \/ ApplyScaffoldGettingStarted
    \/ ApplyScaffoldTools

SpecScaffolders == InitScaffolders /\ [][NextScaffolders]_vars

\* ------------------------------------------------ the spinner alone
\* src/sparkstart/utils/progress.py.  One Spinner object, one caller making
\* start() and stop() calls one after the other, and the threads start() has
\* spawned.  spinner.threads[t] is thread t: where it is in _spin (at the
\* test of the while loop, asleep after writing a frame, ended) and its
\* frame_idx modulo the number of frames.  spinner.thread is self.thread (0
\* for None); spinner.caller is "join" while stop() waits in join.

\* Number of start() and stop() calls of the caller.
MaxSpinnerCalls == 3

\* len(Spinner.FRAMES)
FrameCount == 10

\* The threads that have not left _spin.
Spinning == {t \in DOMAIN spinner.threads : spinner.threads[t].at # "ended"}

InitSpinner ==
    /\ Untouched
    /\ envToken = ""
    /\ token = ""
    /\ op = "Spinner"
    /\ pc = "unit"
    /\ args = NoArgs
    /\ result = "none"
    /\ errText = <<>>
    /\ cli = NoCli

\* Spinner.start(): nothing when running; otherwise running is set and a
\* new thread is made the object's thread and started.
SpinnerStart ==
    /\ op = "Spinner" /\ spinner.caller = "idle"
    /\ calls < MaxSpinnerCalls
    /\ calls' = calls + 1
    /\ spinner' = IF spinner.running
                    THEN spinner
                    ELSE [spinner EXCEPT
                            !.running = TRUE,
                            !.threads = Append(@, [at |-> "test", frame |-> 0]),
                            !.thread = Len(spinner.threads) + 1]
    /\ UNCHANGED <<fsVars, remoteVars, hostVars, op, pc, args, token, result,
                   errText, trace, made, cli, manifest>>

\* Spinner.stop() up to the join: running is cleared; the join is entered
\* when the object has a thread.
SpinnerStop ==
    /\ op = "Spinner" /\ spinner.caller = "idle"
    /\ calls < MaxSpinnerCalls
    /\ calls' = calls + 1
    /\ spinner' = [spinner EXCEPT
                     !.running = FALSE,
                     !.caller = IF spinner.thread # 0 THEN "join" ELSE "idle"]
    /\ UNCHANGED <<fsVars, remoteVars, hostVars, op, pc, args, token, result,
                   errText, trace, made, cli, manifest>>

\* self.thread.join(timeout=1) returns: the thread has ended, or the
\* timeout has passed with the thread wherever it is.  stop() then writes
\* the final message and returns.
SpinnerJoin ==
    /\ op = "Spinner" /\ spinner.caller = "join"
    /\ \E timedOut \in BOOLEAN :
         timedOut \/ spinner.threads[spinner.thread].at = "ended"
    /\ spinner' = [spinner EXCEPT !.caller = "idle"]
    /\ UNCHANGED <<fsVars, remoteVars, hostVars, op, pc, args, token, result,
                   errText, trace, calls, made, cli, manifest>>

\* _spin, the test of `while self.running`: the frame is written and the
\* thread goes to sleep, or the loop and the thread end.
SpinTest ==
    /\ op = "Spinner"
    /\ \E t \in DOMAIN spinner.threads :
         /\ spinner.threads[t].at = "test"
         /\ spinner' = [spinner EXCEPT
                          !.threads[t] =
                             IF spinner.running
                               THEN [at |-> "sleep",
                                     frame |-> (@.frame + 1) % FrameCount]
                               ELSE [@ EXCEPT !.at = "ended"]]
    /\ UNCHANGED <<fsVars, remoteVars, hostVars, op, pc, args, token, result,
                   errText, trace, calls, made, cli, manifest>>

\* _spin, the end of time.sleep(0.1): back to the test.
SpinWake ==
    /\ op = "Spinner"
    /\ \E t \in DOMAIN spinner.threads :
         /\ spinner.threads[t].at = "sleep"
         /\ spinner' = [spinner EXCEPT !.threads[t].at = "test"]
    /\ UNCHANGED <<fsVars, remoteVars, hostVars, op, pc, args, token, result,
                   errText, trace, calls, made, cli, manifest>>

NextSpinner ==
    \/ SpinnerStart
    \/ SpinnerStop
    \/ SpinnerJoin
    \/ SpinTest
    \/ SpinWake

SpecSpinner == InitSpinner /\ [][NextSpinner]_vars

\* ====================================================== properties

HasEvent(kind) == \E i \in DOMAIN trace : trace[i][1] = kind

HasEventIn(kinds) == \E i \in DOMAIN trace : trace[i][1] \in kinds

\* Event kinds by the component that produces them.
ScaffoldEvents == {"scaffold_tutorial", "scaffold_standard",
                   "scaffold_devcontainer", "scaffold_direnv",
                   "scaffold_compose", "scaffold_getting_started"}

CredentialEvents == {"get_project_token", "getenv", "webbrowser.open",
                     "prompt", "save_project_token"}

ApiEvents == {"POST /user/repos", "GET /user", "DELETE /repos"}

\* The three artifacts gated by devcontainer.
DevcontainerArtifacts == {".devcontainer/devcontainer.json", ".envrc",
                          "compose.yaml"}

\* C1: create_project on a path that exists fails with AlreadyExists at its
\* first step: the step from the mkdir position with the directory present
\* raises AlreadyExists, changes neither the directory nor the remote, and
\* the call has performed no scaffolder, credential, git or API effect.
C1_ExistingPathFailsFirst ==
    [][(Running("create", "mkdir") /\ dirExists)
         => /\ result' = "AlreadyExists"
            /\ pc' = "failed"
            /\ UNCHANGED <<fsVars, remoteVars>>
            /\ trace' = <<>>]_vars

C1_Witness ==
    /\ op = "create"
    /\ result = "AlreadyExists"
    /\ "README.md" \in DOMAIN files
    /\ trace = <<>>

HoldsAuthUrl(text) ==
    \E i \in DOMAIN text :
       /\ i + 2 <= Len(text)
       /\ text[i] = "https://"
       /\ text[i + 1] \in Tokens
       /\ text[i + 2] = "@"

\* C3: the token-bearing push URL is used only transiently: in no state does
\* a persisted file of the project hold the token-embedded URL.  The only
\* persisted place a URL is written to is the repository configuration
\* (remote.origin.url, written by `remote add origin`); the program keeps
\* no log.
C3_AuthUrlNeverPersisted == ~HoldsAuthUrl(git.origin)

\* C4: with github set, no token in the credential file or the environment
\* and no terminal attached, create_project fails with MissingCredential
\* before any git command: no prompt is attempted and no repository is
\* initialised, and the scaffolded files are on disk.
C4_NoTerminalFailsFast ==
    (/\ op = "create"
     /\ args.github
     /\ ~interactive
     /\ Ended
     /\ Contains(trace, <<"get_project_token", "">>)
     /\ Contains(trace, <<"getenv", "">>))
      => /\ result = "MissingCredential"
         /\ ~HasEventIn({"prompt", "webbrowser.open", "git"})
         /\ ~git.repo
         /\ "GETTING_STARTED.md" \in DOMAIN files

\* Event i of the trace is preceded by event ev.
Before(i, ev) == \E j \in 1..(i - 1) : trace[j] = ev

\* C5: token resolution in create_project follows the order credential file,
\* environment variable, prompt: the environment is read only after the file
\* yielded an empty token, the prompt is opened only after both did, and the
\* token is written back to the credential file exactly when it came from
\* the prompt (the file of the directory the call created then holds the
\* token the call goes on with).
C5_ResolutionOrder ==
    op = "create" =>
      /\ \A i \in DOMAIN trace :
            /\ trace[i][1] = "getenv"
                 => Before(i, <<"get_project_token", "">>)
            /\ trace[i][1] \in {"webbrowser.open", "prompt"}
                 => /\ Before(i, <<"get_project_token", "">>)
                    /\ Before(i, <<"getenv", "">>)
            /\ trace[i][1] = "save_project_token"
                 => /\ Before(i, <<"prompt", "">>)
                    /\ trace[i][2] = token
      /\ HasEvent("git")
           => /\ HasEvent("save_project_token") <=> HasEvent("prompt")
              /\ args.github => token # ""
              /\ (args.github /\ ~HasEvent("prompt"))
                   => Contains(trace, <<"getenv", token>>)
      /\ (pc # "mkdir" /\ result # "AlreadyExists")
           => (CredFile \in DOMAIN files <=> HasEvent("save_project_token"))
      /\ HasEvent("save_project_token") => credToken = token

C5_Witness ==
    /\ op = "create"
    /\ result = "ok"
    /\ HasEvent("prompt")
    /\ HasEvent("save_project_token")
    /\ credToken = token
    /\ token \in Tokens

\* C6: delete_project with github set takes the token of the credential
\* file when it holds one and otherwise the environment variable, reads the
\* environment only after the file yielded an empty token, and never
\* prompts; with both empty it fails with MissingCredential, having called
\* no API and with the directory still present.
C6_DeleteResolution ==
    op = "delete" =>
      /\ ~HasEventIn({"webbrowser.open", "prompt", "save_project_token"})
      /\ \A i \in DOMAIN trace :
            trace[i][1] = "getenv" => Before(i, <<"get_project_token", "">>)
      /\ pc \in {"user", "delete_repo"}
           => /\ token # ""
              /\ token = IF get_project_token # "" THEN get_project_token
                                                    ELSE envToken
      /\ HasEventIn(ApiEvents) => token # ""
      /\ result = "MissingCredential"
           => /\ get_project_token = ""
              /\ envToken = ""
              /\ dirExists
              /\ ~HasEventIn(ApiEvents \cup {"rmtree"})

C6_Witness ==
    /\ op = "delete"
    /\ args.github
    /\ result = "MissingCredential"
    /\ dirExists
    /\ "README.md" \in DOMAIN files

\* C7: with the git executable absent create_project fails with MissingTool
\* before any version-control state is touched and before credential
\* resolution: no token is read or prompted for, no credential file is
\* written, no git command and no API call is made, and the directory and
\* the files scaffolded by the earlier steps are on disk.
C7_MissingToolBeforeGitAndToken ==
    result = "MissingTool" =>
      /\ op = "create"
      /\ ~HasEventIn(CredentialEvents \cup ApiEvents \cup {"git"})
      /\ token = ""
      /\ CredFile \notin DOMAIN files
      /\ git = NoGit
      /\ dirExists
      /\ "GETTING_STARTED.md" \in DOMAIN files
      /\ HasEventIn({"scaffold_tutorial", "scaffold_standard"})
      /\ args.devcontainer => DevcontainerArtifacts \subseteq DOMAIN files

C7_Witness ==
    /\ result = "MissingTool"
    /\ args.github
    /\ args.devcontainer
    /\ envToken = ""

\* C8: no step of create_project undoes an earlier one: from directory
\* creation on, every step (a failing one included) keeps the directory,
\* every file, the lines of the ignore file, the credential file's token,
\* the initialised repository with its staged and committed files and its
\* origin, and the remote repository; and no create_project call issues a
\* DELETE to the hosting API, after a failed push or otherwise.
C8_NoStepUndone ==
    [][(op = "create" /\ pc # "mkdir" /\ result = "running")
         => /\ dirExists'
            /\ DOMAIN files \subseteq DOMAIN files'
            /\ Len(gitignore) <= Len(gitignore')
            /\ \A i \in DOMAIN gitignore : gitignore'[i] = gitignore[i]
            /\ credToken # "" => credToken' = credToken
            /\ git.repo => git'.repo
            /\ git.staged \subseteq git'.staged
            /\ git.committed \subseteq git'.committed
            /\ git.origin # <<>> => git'.origin = git.origin
            /\ remoteRepo => remoteRepo'
            /\ remoteFiles \subseteq remoteFiles'
            /\ \A i \in DOMAIN trace' :
                  trace'[i][1] \notin {"DELETE /repos", "rmtree"}]_vars

C8_Witness ==
    /\ op = "create"
    /\ result = "ProcessFailure"
    /\ Contains(trace, <<"git", "push">>)
    /\ remoteRepo
    /\ git.origin # <<>>
    /\ git.committed # {}
    /\ CredFile \in DOMAIN files

\* C9: create_project with github, devcontainer and tutorial false (the
\* orchestrator has no tools step), for each of the four languages, followed
\* by a completed delete_project on the same path leaves the path as it was
\* before creation: the directory and everything in it is absent.
C9_CreateDeleteInverse ==
    (/\ op = "delete"
     /\ result = "ok"
     /\ made.ok
     /\ made.lang \in SupportedLangs
     /\ ~made.github /\ ~made.devcontainer /\ ~made.tutorial)
      => /\ ~dirExists
         /\ files = NoFiles
         /\ gitignore = <<>>
         /\ credToken = ""
         /\ git = NoGit

C9_Witness ==
    /\ op = "delete"
    /\ result = "ok"
    /\ made.ok
    /\ made.lang = "rust"
    /\ ~made.github /\ ~made.devcontainer /\ ~made.tutorial
    /\ ~dirExists

\* The number of devcontainer artifacts in the directory.
ArtifactCount == Cardinality(DevcontainerArtifacts \cap DOMAIN files)

\* C10: a call that created the directory and completed has all three
\* devcontainer artifacts when devcontainer is set; a call with devcontainer
\* unset runs none of the three scaffolders and its directory has none of
\* the artifacts; and no call, completed or failed, ends with one or two of
\* the three.
C10_DevcontainerAllOrNone ==
    op = "create" =>
      /\ (result = "ok" /\ args.devcontainer) => ArtifactCount = 3
      /\ ~args.devcontainer
           => /\ ~HasEventIn({"scaffold_devcontainer", "scaffold_direnv",
                              "scaffold_compose"})
              /\ (pc # "mkdir" /\ result # "AlreadyExists")
                   => ArtifactCount = 0
      /\ Ended => ArtifactCount \in {0, 3}

C10_Witness ==
    /\ op = "create"
    /\ result = "ok"
    /\ args.devcontainer
    /\ args.lang = "cpp"
    /\ ArtifactCount = 3

\* C11: with tutorial set, create_project runs the tutorial scaffolder of the
\* language and never the README and standard scaffolder, and what it
\* writes does not depend on template: when the source scaffold is done the
\* directory holds exactly the tutorial files of the language and the
\* tutorial ignore lines, for template None and pygame alike, and no later
\* step changes them.
C11_TutorialIgnoresTemplate ==
    (op = "create" /\ args.tutorial /\ pc # "mkdir"
       /\ result # "AlreadyExists")
      => /\ ~HasEvent("scaffold_standard")
         /\ (pc # "scaffold" /\ args.lang \in SupportedLangs)
              => /\ Contains(trace, <<"scaffold_tutorial", args.lang>>)
                 /\ \A n \in DOMAIN TutorialFiles(args.lang) \ {IgnoreFile} :
                       n \in DOMAIN files
                         /\ files[n] = TutorialFiles(args.lang)[n]
                 /\ \A i \in DOMAIN GitignoreTutorial(args.lang) :
                       gitignore[i] = GitignoreTutorial(args.lang)[i]
                 /\ ".venv" \notin DOMAIN files
         /\ pc = "aux"
              => /\ files = TutorialFiles(args.lang)
                 /\ gitignore = GitignoreTutorial(args.lang)

C11_Witness ==
    /\ op = "create"
    /\ args.tutorial
    /\ args.template = "pygame"
    /\ args.lang = "python"
    /\ result = "ok"
    /\ files["src/main.py"] = "tutorial"

\* C19: create_project with a language outside the four supported ones fails
\* with UnsupportedLanguage at the source scaffold, in the tutorial and in
\* the standard branch: no auxiliary scaffolder, guide, credential, git or
\* API effect has happened, and the directory of step 1 is left in place,
\* empty (tutorial) or holding only the README (standard).
C19_UnknownLanguageStops ==
    (op = "create" /\ args.lang \notin SupportedLangs
       /\ pc \notin {"mkdir", "scaffold"} /\ result # "AlreadyExists")
      => /\ result = "UnsupportedLanguage"
         /\ pc = "failed"
         /\ errText = UnknownLanguage(args.lang)
         /\ trace = <<>>
         /\ dirExists
         /\ files = IF args.tutorial
                      THEN NoFiles
                      ELSE Write(NoFiles, "README.md", ReadmeTag(args.lang))
         /\ gitignore = <<>>
         /\ credToken = ""
         /\ git = NoGit

C19_Witness ==
    /\ op = "create"
    /\ args.lang = "go"
    /\ ~args.tutorial
    /\ args.devcontainer
    /\ args.github
    /\ result = "UnsupportedLanguage"
    /\ DOMAIN files = {"README.md"}

IsGit(ev) == ev[1] = "git"

\* The git commands the running call has issued, in order.
GitEvents == SelectSeq(trace, IsGit)

\* The order of the git commands of create_project.
GitOrder(github) ==
    <<"init", "add", "commit">>
      \o (IF github THEN <<"remote add", "push">> ELSE <<>>)

\* The command line of a git command.
GitCmd(detail, tok) ==
    CASE detail = "init" -> <<"git", "init", "-b", "main">>
      [] detail = "add" -> <<"git", "add", ".">>
      [] detail = "commit" -> <<"git", "commit", "-m", "Initial commit">>
      [] detail = "remote add" ->
           <<"git", "remote", "add", "origin">> \o AuthRepoUrl(CloneUrl, tok)
      [] OTHER -> <<"git", "push", "-u", "origin", "main">>

\* C20: the git commands of create_project are issued in the order init
\* (-b main), add, commit and, only with github, remote add origin, push -u;
\* a command is issued only after the previous one succeeded (its effect on
\* the repository is there), a failing command is the last effect of the
\* call and its failure carries the command and the captured stderr, and a
\* completed call has issued them all.
C20_GitCommandOrder ==
    op = "create" =>
      LET g == GitEvents
          want == GitOrder(args.github)
      IN  /\ Len(g) <= Len(want)
          /\ \A i \in DOMAIN g : g[i][2] = want[i]
          /\ Len(g) >= 2 => git.repo
          /\ Len(g) >= 3 => git.staged # {}
          /\ Len(g) >= 4 => git.committed = git.staged
          /\ Len(g) >= 5 => git.origin # <<>>
          /\ (result = "ProcessFailure" /\ g # <<>>)
               => /\ trace[Len(trace)] = g[Len(g)]
                  /\ errText = ShellError(GitCmd(g[Len(g)][2], token))
          /\ (result = "ok" /\ pc = "done") => Len(g) = Len(want)

C20_Witness ==
    /\ op = "create"
    /\ args.github
    /\ result = "ProcessFailure"
    /\ Len(GitEvents) = 3
    /\ git.staged # {}
    /\ git.committed = {}
    /\ errText = ShellError(<<"git", "commit", "-m", "Initial commit">>)

\* The files of the tools scaffolder that every language gets.
ToolsFiles == {".pre-commit-config.yaml", ".editorconfig"}

\* The checks of `new` have all passed for the running command.
NewChecksPassed ==
    /\ validate_project_name(cli.name).ok
    /\ ~check_project_exists(cli.name)
    /\ args.lang = "None" \/ validate_language(args.lang).ok
    /\ validate_template(args.template, LangOrDefault(args.lang)).ok

\* C12: a `new` command with --tools whose checks pass creates a project
\* that holds .pre-commit-config.yaml and .editorconfig, whatever
\* --tutorial and --devcontainer are; without --tools neither file is
\* written.
C12_ToolsFlagGatesToolsFiles ==
    (cli.cmd = "new" /\ pc = "exited" /\ NewChecksPassed)
      => /\ cli.tools => ToolsFiles \subseteq DOMAIN files
         /\ ~cli.tools => ToolsFiles \cap DOMAIN files = {}

\* What holds of a `new` command in every state of it: the call of
\* create_project is reached only with all four checks passed, and a
\* command that a check ended has status 1, has not entered the
\* orchestrator and has had no external effect.
NewChecksFirst ==
    cli.cmd = "new"
      => /\ (pc \in {"new_checks", "new_call"} \/ op = "create"
               \/ result = "TypeError")
              => NewChecksPassed
         /\ (pc = "exited" /\ ~NewChecksPassed)
              => /\ cli.exit = 1
                 /\ result \in {"InvalidName", "AlreadyExists",
                                 "UnsupportedLanguage", "UnsupportedTemplate"}
                 /\ errText # <<>>
                 /\ op = "none"
                 /\ trace = <<>>

\* C15: in `new` with the name given, the name check, the already-exists
\* check, the language check and the template check are all done before
\* create_project is called; when one of them fails the command exits with
\* a non-zero status, and no step of the command up to there has changed
\* the project directory or the remote.
C15_ChecksBeforeCreate ==
    [][/\ NewChecksFirst'
       /\ (cli.cmd = "new" /\ op = "none")
            => UNCHANGED <<fsVars, remoteVars>>]_vars

C15_Witness ==
    /\ cli.cmd = "new"
    /\ pc = "exited"
    /\ result = "UnsupportedTemplate"
    /\ args.lang = "rust"
    /\ cli.exit = 1
    /\ ~dirExists

\* C16: a hard failure of create_project or delete_project reaches the top
\* level: the command, `delete` as well as `new`, exits with a non-zero
\* status, and status 0 is produced only when the orchestrator succeeded.
C16_FailureExitsNonZero ==
    (cli.cmd # "none" /\ pc = "exited")
      => (cli.exit = 0 <=> result = "ok")

\* The rule of names: non-empty, at most 50 characters, a letter or an
\* underscore first, then letters, digits, underscores and hyphens only, and
\* not a reserved word (in any letter case).
NameRule(name) ==
    /\ name # <<>>
    /\ Len(name) <= MaxNameLen
    /\ name[1] \in HeadClass
    /\ \A i \in 2..Len(name) : name[i] \in TailClass
    /\ Lower(name) \notin Reserved

\* C13: validate_project_name returns the name unchanged exactly when the
\* name obeys the rule of names, and otherwise fails with InvalidName; no
\* accepted name holds a space, a newline or another character outside the
\* pattern's classes.
C13_NameAcceptedIffRule ==
    (op = "validate_project_name" /\ pc = "returned")
      => /\ result = "ok" <=> NameRule(cli.name)
         /\ result = "ok" => validate_project_name(cli.name).value = cli.name
         /\ result # "ok" => result = "InvalidName"
         /\ result = "ok" => \A i \in DOMAIN cli.name : cli.name[i] \in TailClass

\* C14: validate_template accepts None for every language, the unsupported
\* one included, and a template that is not None exactly when the language
\* is python and the template pygame; every other pair fails with
\* UnsupportedTemplate.
C14_TemplateAllowList ==
    (op = "validate_template" /\ pc = "returned")
      => /\ args.template = "None" => result = "ok"
         /\ args.template # "None"
              => (result = "ok"
                    <=> (args.lang = "python" /\ args.template = "pygame"))
         /\ result # "ok" => result = "UnsupportedTemplate"
         /\ result = "ok"
              => validate_template(args.template, args.lang).value
                   = args.template

C14_Witness ==
    /\ op = "validate_template"
    /\ pc = "returned"
    /\ args.template = "pygame"
    /\ args.lang = "rust"
    /\ result = "UnsupportedTemplate"

\* C17: for each of get_github_user, create_github_repo and
\* delete_github_repo, an answer whose status lies outside 200..299, below
\* 200 as well as from 300 on, ends the call with RemoteAPIError carrying
\* the status and the body, and only an answer with a 2xx status makes the
\* call return normally.
C17_Non2xxIsRemoteAPIError ==
    (op \in {"get_github_user", "create_github_repo", "delete_github_repo"}
       /\ pc = "returned" /\ trace # <<>>)
      => \A st \in StatusInputs :
            trace[1][2] = ToString(st)
              => /\ result = "ok" <=> Is2xx(st)
                 /\ ~Is2xx(st)
                      => result = "RemoteAPIError" /\ errText = ApiError(st)

\* The number of lines of the ignore file equal to the credential file name.
IgnoreRuleCount ==
    Cardinality({i \in DOMAIN gitignore : gitignore[i] = CredFile})

\* C18: after one or more save_project_token calls on a project directory,
\* with the same or different tokens, the credential file exists and holds
\* the token of the last call, and the ignore file exists and has exactly
\* one line equal to the credential file name.
C18_SaveTokenIdempotent ==
    (op = "save_project_token" /\ calls >= 1)
      => /\ CredFile \in DOMAIN files
         /\ credToken = trace[Len(trace)][2]
         /\ get_project_token = trace[Len(trace)][2]
         /\ IgnoreFile \in DOMAIN files
         /\ IgnoreRuleCount = 1

C18_Witness ==
    /\ op = "save_project_token"
    /\ calls >= 2
    /\ trace[1][2] # trace[2][2]
    /\ credToken = trace[Len(trace)][2]
    /\ Contains(gitignore, ".venv/")
    /\ IgnoreRuleCount = 1

\* C23: in create_project the credential file, whenever it exists, is
\* covered by a line of the ignore file, so that `git add .` never stages
\* it: it is in no index, no commit and never among the pushed files.
C23_CredentialFileNeverStaged ==
    /\ CredFile \in DOMAIN files => Ignored(CredFile, gitignore)
    /\ CredFile \notin git.staged
    /\ CredFile \notin git.committed
    /\ CredFile \notin remoteFiles

C23_Witness ==
    /\ op = "create"
    /\ result = "ok"
    /\ args.lang = "python"
    /\ HasEvent("prompt")
    /\ CredFile \in DOMAIN files
    /\ IgnoreFile \in remoteFiles
    /\ CredFile \notin remoteFiles

\* C25: the docker check is advisory.  With devcontainer set, the step from
\* the check goes on to the devcontainer scaffolder whether or not the binary
\* was found, touching neither the directory nor the remote and adding at
\* most the warning; a call that warned and completed has run the three
\* auxiliary scaffolders and holds their three artifacts.
C25_DockerAdvisory ==
    /\ [][(Running("create", "aux") /\ args.devcontainer)
            => /\ pc' = "devcontainer"
               /\ result' = "running"
               /\ UNCHANGED <<fsVars, remoteVars, token>>
               /\ trace' \in {trace, Append(trace, <<"warn", "docker">>)}]_vars
    /\ [](  (op = "create" /\ result = "ok" /\ HasEvent("warn"))
            => /\ args.devcontainer
               /\ ArtifactCount = 3
               /\ \A k \in {"scaffold_devcontainer", "scaffold_direnv",
                             "scaffold_compose"} : HasEvent(k))

C25_Witness ==
    /\ op = "create"
    /\ result = "ok"
    /\ args.devcontainer
    /\ args.github
    /\ HasEvent("warn")
    /\ HasEvent("scaffold_compose")
    /\ ArtifactCount = 3
    /\ remoteFiles # {}

\* The git commands that touch the remote.
RemoteGitEvents ==
    {i \in DOMAIN trace :
       trace[i] \in {<<"git", "remote add">>, <<"git", "push">>}}

\* C26: with github unset, create_project reads no credential source, does
\* not prompt, lets the credential store write nothing, calls no API and
\* runs neither `remote add` nor `push`; delete_project with github unset
\* reads no token and calls no API.  Neither changes the remote.
C26_NoGithubNoRemote ==
    /\ []( (op \in {"create", "delete"} /\ ~args.github)
            => /\ ~HasEventIn(CredentialEvents \cup ApiEvents)
               /\ RemoteGitEvents = {}
               /\ token = ""
               /\ (op = "create" /\ pc # "mkdir" /\ result # "AlreadyExists")
                    => (/\ CredFile \notin DOMAIN files
                        /\ credToken = ""
                        /\ gitignore \in {<<>>, GitignoreTutorial(args.lang),
                                          GitignoreStandard(args.lang)}
                        /\ (IgnoreFile \in DOMAIN files)
                             => files[IgnoreFile] # "lines"
                        /\ git.origin = <<>>) )
    /\ [][(op \in {"create", "delete"} /\ ~args.github)
            => UNCHANGED remoteVars]_vars

C26_Witness ==
    /\ op = "create"
    /\ result = "ok"
    /\ ~args.github
    /\ envToken # ""
    /\ git.committed # {}
    /\ ~remoteRepo

\* C27: a create_project that failed after the directory was made leaves the
\* directory in place, so the same call made again fails with AlreadyExists
\* at its first step and changes nothing; the directory goes away only by
\* the rmtree of delete_project, and only a call that finds it absent gets
\* past the first step.
C27_RetryNeedsRemoval ==
    /\ []( (op = "create" /\ pc = "failed") => dirExists )
    /\ [][/\ (op = "create" /\ pc = "mkdir" /\ dirExists)
               => (result' = "AlreadyExists"
                   /\ UNCHANGED <<fsVars, remoteVars, trace>>)
          /\ (op = "create" /\ pc = "mkdir" /\ pc' = "scaffold")
               => ~dirExists
          /\ (dirExists /\ ~dirExists')
               => (op = "delete" /\ pc = "rmtree")]_vars

\* The second call fails on the directory a failed first call left behind.
C27_Witness ==
    /\ op = "create"
    /\ calls = 2
    /\ result = "AlreadyExists"
    /\ dirExists
    /\ ~made.ok
    /\ files # NoFiles

\* C29: when create_project reaches credential resolution the credential
\* file does not exist, the file source yields the empty token, and the
\* token in use afterwards is the one of the environment or the one typed
\* at the prompt.
C29_FileSourceAlwaysEmpty ==
    op = "create"
      => /\ (pc = "token")
              => (CredFile \notin DOMAIN files /\ get_project_token = "")
         /\ \A i \in DOMAIN trace :
              trace[i][1] = "get_project_token" => trace[i][2] = ""
         /\ (token # "") => (token = envToken \/ HasEvent("prompt"))

C29_Witness ==
    /\ op = "create"
    /\ calls = 2
    /\ result = "ok"
    /\ made.ok
    /\ HasEvent("get_project_token")
    /\ token = envToken
    /\ token # ""
    /\ remoteFiles # {}

\* C24: create_github_repo called with no token while GITHUB_TOKEN is unset
\* or empty fails with MissingCredential, its own message, and has sent no
\* request; with a token from either source the request is sent and the
\* failure, if any, is the one of the response.
C24_MissingCredentialBeforeRequest ==
    (op = "create_github_repo" /\ pc = "returned")
      => /\ (token = "" /\ envToken = "")
              <=> result = "MissingCredential"
         /\ (result = "MissingCredential")
              => /\ trace = <<>>
                 /\ errText = <<"GitHub token not provided.">>
                 /\ \A st \in StatusInputs : errText # ApiError(st)
         /\ (result # "MissingCredential")
              => /\ Len(trace) = 1
                 /\ trace[1][1] = "POST /user/repos"

C24_Witness ==
    /\ op = "create_github_repo"
    /\ pc = "returned"
    /\ token = ""
    /\ envToken = ""
    /\ result = "MissingCredential"
    /\ trace = <<>>

\* Two characters that are the same letter in either case, or equal.
SameLetter(c, d) ==
    \/ c = d
    \/ \E i \in DOMAIN LowerLetters :
         {c, d} = {LowerLetters[i], UpperLetters[i]}

\* The name spells a reserved word, whatever the case of its letters.
SpellsReserved(name) ==
    \E w \in Reserved :
      /\ Len(name) = Len(w)
      /\ \A i \in DOMAIN w : SameLetter(name[i], w[i])

\* C28: a name that passes the length and pattern rules is rejected by
\* validate_project_name exactly when it spells one of test, build, dist,
\* env, venv in any mix of upper and lower case.
C28_ReservedCaseInsensitive ==
    (/\ op = "validate_project_name"
     /\ pc = "returned"
     /\ Len(cli.name) \in 1..MaxNameLen
     /\ NameRegexMatch(cli.name))
      => /\ result = "InvalidName" <=> SpellsReserved(cli.name)
         /\ SpellsReserved(cli.name)
              => errText = <<"is a reserved project name">>

C28_Witness ==
    /\ op = "validate_project_name"
    /\ pc = "returned"
    /\ cli.name = <<"B", "U", "I", "L", "D">>
    /\ result = "InvalidName"
    /\ errText = <<"is a reserved project name">>

\* C21: a second scaffold_tools call on a directory the first call has
\* processed leaves the manifests (requirements-dev.txt, pyproject.toml,
\* package.json) with the content they had after the first call.
C21_ToolsIdempotent ==
    [][(op = "scaffold_tools" /\ calls >= 1 /\ calls' = calls + 1)
         => manifest' = manifest]_vars

\* C22: a scaffolder of any kind, called with a language outside the
\* supported ones, fails with UnsupportedLanguage.
C22_UnknownLanguageFailsEverywhere ==
    (op \in ScaffolderNames /\ pc = "returned" /\ args.lang \notin SupportedLangs)
      => result = "UnsupportedLanguage"

\* C30: whatever the order of the caller's start() and stop() calls and of
\* the threads' steps, at most one thread is in the animation loop; start()
\* on a running spinner spawns no thread; and only the thread of the latest
\* start() ever passes the loop test.
C30_OneSpinningThread ==
    /\ [](Cardinality(Spinning) <= 1)
    /\ [][/\ spinner.running => Len(spinner'.threads) = Len(spinner.threads)
          /\ \A t \in DOMAIN spinner.threads :
               (spinner.threads[t].at = "test" /\ spinner'.threads[t].at = "sleep")
                 => t = spinner.thread]_vars

====
